---------------------------- MODULE Spec2Model ----------------------------
(***************************************************************************)
(* Authentication and session engine of tm-express: the token codec        *)
(* (utils/jwt.js), the session store (utils/redis.js), the request gate    *)
(* (middleware/auth.js) and the login/logout handlers                      *)
(* (controllers/authController.js).                                        *)
(*                                                                         *)
(* JavaScript strings and Buffers are sequences of character codes         *)
(* (ASCII, so that a string and its UTF-8 bytes coincide).  JavaScript     *)
(* values are records tagged by the field t.                               *)
(***************************************************************************)
EXTENDS Integers, Sequences, FiniteSets, TLC

(***************************************************************************)
(* JavaScript values                                                       *)
(***************************************************************************)
JStr(s)  == [t |-> "str", s |-> s]
JNum(n)  == [t |-> "num", n |-> n]
JBool(b) == [t |-> "bool", b |-> b]
JNull    == [t |-> "null"]
JUndef   == [t |-> "undef"]
JObj(m)  == [t |-> "obj", m |-> m]
JArr(a)  == [t |-> "arr", a |-> a]
JNaN     == [t |-> "nan"]
JFalse   == JBool(FALSE)

\* ToBoolean: the values that pass `if (v)`, `v && ...`, `!v`.
Truthy(v) ==
    CASE v.t = "str"  -> v.s # <<>>
      [] v.t = "num"  -> v.n # 0
      [] v.t = "bool" -> v.b
      [] v.t = "null" -> FALSE
      [] v.t = "undef" -> FALSE
      [] v.t = "nan"  -> FALSE
      [] OTHER -> TRUE

\* v.key for a value that is not null/undefined (own data properties only).
RECURSIVE Lookup(_, _, _)
Lookup(m, k, i) ==
    IF i = 0 THEN JUndef
    ELSE IF m[i].k = k THEN m[i].v ELSE Lookup(m, k, i - 1)

GetProp(v, k) == IF v.t = "obj" THEN Lookup(v.m, k, Len(v.m)) ELSE JUndef

\* Property access on null or undefined raises a TypeError.
PropThrows(v) == v.t \in {"null", "undef"}

(***************************************************************************)
(* String helpers                                                          *)
(***************************************************************************)
\* s.replace(/c/g, d) for single characters c and d
ReplaceAllChar(s, from, to) ==
    [i \in 1..Len(s) |-> IF s[i] = from THEN to ELSE s[i]]

\* s.replace(/c/g, '')
RemoveChar(s, c) == SelectSeq(s, LAMBDA x : x # c)

Min(S) == CHOOSE x \in S : \A y \in S : x <= y

IsPrefixAt(s, p, i) ==
    /\ i + Len(p) - 1 <= Len(s)
    /\ SubSeq(s, i, i + Len(p) - 1) = p

\* String.prototype.replace(pattern, replacement) with a string pattern:
\* only the first occurrence is replaced.
ReplaceFirst(s, p, r) ==
    LET at == {i \in 1..Len(s) : IsPrefixAt(s, p, i)}
    IN  IF at = {} THEN s
        ELSE LET i == Min(at)
             IN  SubSeq(s, 1, i - 1) \o r \o SubSeq(s, i + Len(p), Len(s))

\* String.prototype.split(sep) for a one-character separator: the pieces
\* between consecutive separators, empty pieces included.
Split(s, sep) ==
    LET at == {i \in 1..Len(s) : s[i] = sep}
        \* position of the j-th separator, 0 before the first and
        \* Len(s) + 1 after the last
        pos(j) == IF j = 0 THEN 0
                  ELSE IF j > Cardinality(at) THEN Len(s) + 1
                  ELSE CHOOSE i \in at : Cardinality({d \in at : d < i}) = j - 1
    IN  [j \in 1..(Cardinality(at) + 1) |-> SubSeq(s, pos(j - 1) + 1, pos(j) - 1)]

RECURSIVE Repeat(_, _)
Repeat(c, n) == IF n <= 0 THEN <<>> ELSE <<c>> \o Repeat(c, n - 1)

\* Number.prototype.toString for an integer.
RECURSIVE Digits(_)
Digits(n) == IF n < 10 THEN <<48 + n>> ELSE Digits(n \div 10) \o <<48 + (n % 10)>>

NumToStr(n) == IF n < 0 THEN <<45>> \o Digits(0 - n) ELSE Digits(n)

(***************************************************************************)
(* Base64                                                                  *)
(***************************************************************************)
\* index 0..63 -> character code of the standard alphabet
B64Char(i) ==
    IF i < 26 THEN 65 + i
    ELSE IF i < 52 THEN 97 + (i - 26)
    ELSE IF i < 62 THEN 48 + (i - 52)
    ELSE IF i = 62 THEN 43 ELSE 47

\* character code -> index, or -1 for a character outside the alphabet;
\* Node's decoder also accepts the URL-safe '-' and '_'.
B64Index(c) ==
    IF c >= 65 /\ c <= 90 THEN c - 65
    ELSE IF c >= 97 /\ c <= 122 THEN c - 71
    ELSE IF c >= 48 /\ c <= 57 THEN c + 4
    ELSE IF c = 43 \/ c = 45 THEN 62
    ELSE IF c = 47 \/ c = 95 THEN 63
    ELSE -1

\* Buffer.prototype.toString('base64'): every group of three bytes gives
\* four characters; a last group of one or two bytes is padded with '='
ToBase64(b) ==
    LET n == Len(b)
        byte(i) == IF i <= n THEN b[i] ELSE 0
        char(j) ==
            LET g == 3 * ((j - 1) \div 4)
                p == (j - 1) % 4
            IN  IF p = 0 THEN B64Char(byte(g + 1) \div 4)
                ELSE IF p = 1 THEN B64Char((byte(g + 1) % 4) * 16 + byte(g + 2) \div 16)
                ELSE IF p = 2 THEN
                    (IF g + 2 > n THEN 61
                     ELSE B64Char((byte(g + 2) % 16) * 4 + byte(g + 3) \div 64))
                ELSE (IF g + 3 > n THEN 61 ELSE B64Char(byte(g + 3) % 64))
    IN  [j \in 1..(4 * ((n + 2) \div 3)) |-> char(j)]

\* the 6-bit groups of a base64 text: decoding stops at the first '=',
\* characters outside the alphabet are skipped
Sextets(s) ==
    LET pads == {i \in 1..Len(s) : s[i] = 61}
        body == IF pads = {} THEN s ELSE SubSeq(s, 1, Min(pads) - 1)
        kept == SelectSeq(body, LAMBDA c : B64Index(c) >= 0)
    IN  [i \in 1..Len(kept) |-> B64Index(kept[i])]

\* four 6-bit groups give three bytes; a last group of two or three gives
\* one or two bytes, a single left-over group gives none
SextetsToBytes(q) ==
    LET byte(j) ==
            LET g == 4 * ((j - 1) \div 3)
                r == (j - 1) % 3
            IN  IF r = 0 THEN q[g + 1] * 4 + q[g + 2] \div 16
                ELSE IF r = 1 THEN (q[g + 2] % 16) * 16 + q[g + 3] \div 4
                ELSE (q[g + 3] % 4) * 64 + q[g + 4]
    IN  [j \in 1..((Len(q) * 3) \div 4) |-> byte(j)]

\* Buffer.from(text, 'base64')
FromBase64(s) == SextetsToBytes(Sextets(s))

\* Buffer.prototype.toString('utf8'): a byte below 128 is its character,
\* any other byte is shown as the replacement character U+FFFD.
Utf8ToString(b) == [i \in 1..Len(b) |-> IF b[i] < 128 THEN b[i] ELSE 65533]

(***************************************************************************)
(* JSON.stringify and JSON.parse                                           *)
(*                                                                         *)
(* Numbers are integers; strings hold no control characters.               *)
(***************************************************************************)
\* the quoted form of a string: '"' and '\' are escaped
RECURSIVE QuoteChars(_)
QuoteChars(s) ==
    IF s = <<>> THEN <<>>
    ELSE (IF Head(s) = 34 THEN <<92, 34>>
          ELSE IF Head(s) = 92 THEN <<92, 92>>
          ELSE <<Head(s)>>) \o QuoteChars(Tail(s))

Quote(s) == <<34>> \o QuoteChars(s) \o <<34>>

RECURSIVE Stringify(_), StringifyMembers(_, _, _), StringifyElements(_, _)

\* JSON.stringify(v) for a value other than undefined
Stringify(v) ==
    CASE v.t = "str"  -> Quote(v.s)
      [] v.t = "num"  -> NumToStr(v.n)
      [] v.t = "bool" -> IF v.b THEN <<116, 114, 117, 101>>
                                ELSE <<102, 97, 108, 115, 101>>
      [] v.t = "null" -> <<110, 117, 108, 108>>
      [] v.t = "nan"  -> <<110, 117, 108, 108>>
      [] v.t = "obj"  -> <<123>> \o StringifyMembers(v.m, 1, TRUE) \o <<125>>
      [] v.t = "arr"  -> <<91>> \o StringifyElements(v.a, 1) \o <<93>>

\* the properties of an object in insertion order; a property whose value
\* is undefined is left out
StringifyMembers(m, i, first) ==
    IF i > Len(m) THEN <<>>
    ELSE IF m[i].v.t = "undef" THEN StringifyMembers(m, i + 1, first)
    ELSE (IF first THEN <<>> ELSE <<44>>)
         \o Quote(m[i].k) \o <<58>> \o Stringify(m[i].v)
         \o StringifyMembers(m, i + 1, FALSE)

\* the elements of an array; an undefined element is written as null
StringifyElements(a, i) ==
    IF i > Len(a) THEN <<>>
    ELSE (IF i = 1 THEN <<>> ELSE <<44>>)
         \o (IF a[i].t = "undef" THEN <<110, 117, 108, 108>> ELSE Stringify(a[i]))
         \o StringifyElements(a, i + 1)

IsWs(c) == c \in {32, 9, 10, 13}
IsDigit(c) == c >= 48 /\ c <= 57

RECURSIVE SkipWs(_, _)
SkipWs(s, i) == IF i <= Len(s) /\ IsWs(s[i]) THEN SkipWs(s, i + 1) ELSE i

ParseFail == [ok |-> FALSE, v |-> JUndef, i |-> 0]
ParseOk(v, i) == [ok |-> TRUE, v |-> v, i |-> i]

HexVal(c) ==
    IF IsDigit(c) THEN c - 48
    ELSE IF c >= 97 /\ c <= 102 THEN c - 87
    ELSE IF c >= 65 /\ c <= 70 THEN c - 55
    ELSE -1

\* the characters of a string literal from position i (after the opening
\* quote) up to the closing quote
RECURSIVE ParseChars(_, _, _)
ParseChars(s, i, acc) ==
    IF i > Len(s) THEN ParseFail
    ELSE IF s[i] = 34 THEN ParseOk(acc, i + 1)
    ELSE IF s[i] < 32 THEN ParseFail
    ELSE IF s[i] # 92 THEN ParseChars(s, i + 1, Append(acc, s[i]))
    ELSE IF i + 1 > Len(s) THEN ParseFail
    ELSE IF s[i + 1] \in {34, 92, 47} THEN ParseChars(s, i + 2, Append(acc, s[i + 1]))
    ELSE IF s[i + 1] = 98 THEN ParseChars(s, i + 2, Append(acc, 8))
    ELSE IF s[i + 1] = 102 THEN ParseChars(s, i + 2, Append(acc, 12))
    ELSE IF s[i + 1] = 110 THEN ParseChars(s, i + 2, Append(acc, 10))
    ELSE IF s[i + 1] = 114 THEN ParseChars(s, i + 2, Append(acc, 13))
    ELSE IF s[i + 1] = 116 THEN ParseChars(s, i + 2, Append(acc, 9))
    ELSE IF s[i + 1] = 117 /\ i + 5 <= Len(s)
            /\ \A j \in 2..5 : HexVal(s[i + j]) >= 0
         THEN ParseChars(s, i + 6,
                  Append(acc, HexVal(s[i + 2]) * 4096 + HexVal(s[i + 3]) * 256
                              + HexVal(s[i + 4]) * 16 + HexVal(s[i + 5])))
    ELSE ParseFail

RECURSIVE ParseDigits(_, _, _)
ParseDigits(s, i, acc) ==
    IF i <= Len(s) /\ IsDigit(s[i])
    THEN ParseDigits(s, i + 1, acc * 10 + (s[i] - 48))
    ELSE ParseOk(acc, i)

\* an integer literal; a leading zero is followed by no further digit
ParseNumber(s, i) ==
    LET neg == s[i] = 45
        j   == IF neg THEN i + 1 ELSE i
    IN  IF j > Len(s) \/ ~IsDigit(s[j]) THEN ParseFail
        ELSE IF s[j] = 48 /\ j + 1 <= Len(s) /\ IsDigit(s[j + 1]) THEN ParseFail
        ELSE LET d == ParseDigits(s, j, 0)
             IN  IF d.i <= Len(s) /\ s[d.i] \in {46, 101, 69} THEN ParseFail
                 ELSE ParseOk(JNum(IF neg THEN 0 - d.v ELSE d.v), d.i)

\* obj[k] = v: a repeated key keeps its place and takes the later value
RECURSIVE IndexOfKey(_, _, _)
IndexOfKey(m, k, i) ==
    IF i > Len(m) THEN 0 ELSE IF m[i].k = k THEN i ELSE IndexOfKey(m, k, i + 1)

SetMember(m, k, v) ==
    LET j == IndexOfKey(m, k, 1)
    IN  IF j = 0 THEN Append(m, [k |-> k, v |-> v])
        ELSE [m EXCEPT ![j] = [k |-> k, v |-> v]]

RECURSIVE ParseValue(_, _), ParseMembers(_, _, _), ParseElements(_, _, _)

\* one JSON value starting at position i (leading white space already skipped)
ParseValue(s, i) ==
    IF i > Len(s) THEN ParseFail
    ELSE IF s[i] = 34 THEN
        LET r == ParseChars(s, i + 1, <<>>)
        IN  IF r.ok THEN ParseOk(JStr(r.v), r.i) ELSE ParseFail
    ELSE IF s[i] = 45 \/ IsDigit(s[i]) THEN ParseNumber(s, i)
    ELSE IF IsPrefixAt(s, <<116, 114, 117, 101>>, i) THEN ParseOk(JBool(TRUE), i + 4)
    ELSE IF IsPrefixAt(s, <<102, 97, 108, 115, 101>>, i) THEN ParseOk(JBool(FALSE), i + 5)
    ELSE IF IsPrefixAt(s, <<110, 117, 108, 108>>, i) THEN ParseOk(JNull, i + 4)
    ELSE IF s[i] = 123 THEN
        LET j == SkipWs(s, i + 1)
        IN  IF j <= Len(s) /\ s[j] = 125 THEN ParseOk(JObj(<<>>), j + 1)
            ELSE ParseMembers(s, j, <<>>)
    ELSE IF s[i] = 91 THEN
        LET j == SkipWs(s, i + 1)
        IN  IF j <= Len(s) /\ s[j] = 93 THEN ParseOk(JArr(<<>>), j + 1)
            ELSE ParseElements(s, j, <<>>)
    ELSE ParseFail

\* "key": value pairs up to the closing brace
ParseMembers(s, i, acc) ==
    IF i > Len(s) \/ s[i] # 34 THEN ParseFail
    ELSE LET k == ParseChars(s, i + 1, <<>>)
         IN  IF ~k.ok THEN ParseFail
             ELSE LET c == SkipWs(s, k.i)
                  IN  IF c > Len(s) \/ s[c] # 58 THEN ParseFail
                      ELSE LET r == ParseValue(s, SkipWs(s, c + 1))
                           IN  IF ~r.ok THEN ParseFail
                               ELSE LET e == SkipWs(s, r.i)
                                        m == SetMember(acc, k.v, r.v)
                                    IN  IF e > Len(s) THEN ParseFail
                                        ELSE IF s[e] = 125 THEN ParseOk(JObj(m), e + 1)
                                        ELSE IF s[e] = 44
                                             THEN ParseMembers(s, SkipWs(s, e + 1), m)
                                        ELSE ParseFail

\* array elements up to the closing bracket
ParseElements(s, i, acc) ==
    LET r == ParseValue(s, i)
    IN  IF ~r.ok THEN ParseFail
        ELSE LET e == SkipWs(s, r.i)
                 a == Append(acc, r.v)
             IN  IF e > Len(s) THEN ParseFail
                 ELSE IF s[e] = 93 THEN ParseOk(JArr(a), e + 1)
                 ELSE IF s[e] = 44 THEN ParseElements(s, SkipWs(s, e + 1), a)
                 ELSE ParseFail

\* JSON.parse(text): ok = FALSE stands for the SyntaxError it raises
JSONParse(s) ==
    LET r == ParseValue(s, SkipWs(s, 1))
    IN  IF r.ok /\ SkipWs(s, r.i) > Len(s) THEN [ok |-> TRUE, v |-> r.v]
        ELSE [ok |-> FALSE, v |-> JUndef]

(***************************************************************************)
(* JavaScript arithmetic and comparison on the values above                *)
(***************************************************************************)
\* ToNumber: NaN for what is not a number, a boolean, null or the decimal
\* text of an integer
ToNumber(v) ==
    CASE v.t = "num"  -> v
      [] v.t = "bool" -> JNum(IF v.b THEN 1 ELSE 0)
      [] v.t = "null" -> JNum(0)
      [] v.t = "str"  ->
            IF v.s = <<>> THEN JNum(0)
            ELSE LET r == ParseNumber(v.s, 1)
                 IN  IF (v.s[1] = 45 \/ IsDigit(v.s[1])) /\ r.ok /\ r.i > Len(v.s)
                     THEN r.v ELSE JNaN
      [] OTHER -> JNaN

\* ToString of a primitive value
ToStr(v) ==
    CASE v.t = "str"  -> v.s
      [] v.t = "num"  -> NumToStr(v.n)
      [] v.t = "bool" -> IF v.b THEN <<116, 114, 117, 101>>
                                ELSE <<102, 97, 108, 115, 101>>
      [] v.t = "null" -> <<110, 117, 108, 108>>
      [] v.t = "undef" -> <<117, 110, 100, 101, 102, 105, 110, 101, 100>>
      [] v.t = "nan"  -> <<78, 97, 78>>
      [] v.t = "arr"  -> <<>>
      [] OTHER -> <<91, 111, 98, 106, 101, 99, 116, 32, 79, 98, 106, 101, 99, 116, 93>>

\* a + b: concatenation when an operand is a string (or an object, which
\* turns into one), numeric addition otherwise
JsAdd(a, b) ==
    IF a.t \in {"str", "obj", "arr"} \/ b.t \in {"str", "obj", "arr"}
    THEN JStr(ToStr(a) \o ToStr(b))
    ELSE LET x == ToNumber(a)
             y == ToNumber(b)
         IN  IF x.t = "nan" \/ y.t = "nan" THEN JNaN ELSE JNum(x.n + y.n)

\* a < b with a number on one side: false when either side is NaN
JsLess(a, b) ==
    LET x == ToNumber(a)
        y == ToNumber(b)
    IN  x.t = "num" /\ y.t = "num" /\ x.n < y.n

JsGreater(a, b) == JsLess(b, a)

(***************************************************************************)
(* Token codec (utils/jwt.js)                                              *)
(***************************************************************************)
S_alg     == <<97, 108, 103>>
S_typ     == <<116, 121, 112>>
S_HS256   == <<72, 83, 50, 53, 54>>
S_JWT     == <<74, 87, 84>>
S_iss     == <<105, 115, 115>>
S_sub     == <<115, 117, 98>>
S_iat     == <<105, 97, 116>>
S_exp     == <<101, 120, 112>>
S_jti     == <<106, 116, 105>>
S_payload == <<112, 97, 121, 108, 111, 97, 100>>
S_nbf     == <<110, 98, 102>>

\* static header = { alg: 'HS256', typ: 'JWT' }
header == JObj(<<[k |-> S_alg, v |-> JStr(S_HS256)], [k |-> S_typ, v |-> JStr(S_JWT)]>>)

\* static key = 'e1n2v3i4r5k7e8e9p10e11r12'
key == <<101, 49, 110, 50, 118, 51, 105, 52, 114, 53, 107, 55, 101, 56, 101,
         57, 112, 49, 48, 101, 49, 49, 114, 49, 50>>

\* time = 36000 when the argument is omitted
DefaultTime == 36000

\* A keyed digest standing for HMAC-SHA256: a deterministic function of the
\* key and the message whose output, like SHA-256's 32 bytes, has a length
\* that leaves two bytes in the last base64 group.  Collision resistance is
\* not modelled.
RECURSIVE Mix(_, _, _)
Mix(s, lo, hi) ==
    IF lo > hi THEN 0
    ELSE IF lo = hi THEN (s[lo] * (1 + ((lo * 37) % 251))) % 65536
    ELSE LET mid == (lo + hi) \div 2
         IN  (Mix(s, lo, mid) + Mix(s, mid + 1, hi)) % 65536

HmacDigest(k, input) ==
    LET m == k \o <<0>> \o input
        h == Mix(m, 1, Len(m))
    IN  <<h \div 256, h % 256>>

\* base64UrlEncode(input)
base64UrlEncode(input) ==
    RemoveChar(ReplaceAllChar(ReplaceAllChar(ToBase64(input), 43, 45), 47, 95), 61)

\* base64UrlDecode(input)
base64UrlDecode(input) ==
    LET remainder == Len(input) % 4
        padded == IF remainder # 0 THEN input \o Repeat(61, 4 - remainder) ELSE input
        base64 == ReplaceAllChar(ReplaceAllChar(padded, 45, 43), 95, 47)
    IN  Utf8ToString(FromBase64(base64))

\* signature(input, key, alg): createHmac raises a TypeError when algConfig
\* has no entry for alg
signature(input, k, alg) ==
    IF alg # JStr(S_HS256) THEN [thrown |-> TRUE, s |-> <<>>]
    ELSE LET sig == ToBase64(HmacDigest(k, input))
         IN  [thrown |-> FALSE, s |-> base64UrlEncode(FromBase64(sig))]

\* a variant of line 64 that tests only for null and undefined
PayloadNotNullish(payload) == payload # JNull /\ payload # JUndef

\* line 64: if (payload)
PayloadGiven(payload) == Truthy(payload)

\* issueToken(iss, sub, payload = '', time = 36000), called when the clock
\* reads nowSec and getJti() returns jti: the token string, or false
issueToken(iss, sub, payloadArg, timeArg, nowSec, jti) ==
    LET payload == IF payloadArg = JUndef THEN JStr(<<>>) ELSE payloadArg
        time    == IF timeArg = JUndef THEN JNum(DefaultTime) ELSE timeArg
    IN  IF PayloadGiven(payload) THEN
            LET token == JObj(<<[k |-> S_iss, v |-> iss],
                                [k |-> S_sub, v |-> sub],
                                [k |-> S_iat, v |-> JNum(nowSec)],
                                [k |-> S_exp, v |-> time],
                                [k |-> S_jti, v |-> JStr(jti)],
                                [k |-> S_payload, v |-> payload]>>)
                base64header  == base64UrlEncode(Stringify(header))
                base64payload == base64UrlEncode(Stringify(token))
            IN  JStr(base64header \o <<46>> \o base64payload \o <<46>>
                     \o signature(base64header \o <<46>> \o base64payload,
                                  key, GetProp(header, S_alg)).s)
        ELSE JFalse

\* a variant of line 120 that compares the bytes the two texts decode to
SignatureMatchesDecoded(computed, sign) == FromBase64(computed) = FromBase64(sign)

\* line 120: the recomputed signature against the third segment
SignatureMatches(computed, sign) == computed = sign

\* a variant of line 135 that tolerates a clock one second behind
IssuedInFutureWithLeeway(token, currentTime) ==
    /\ Truthy(GetProp(token, S_iat))
    /\ JsGreater(GetProp(token, S_iat), JNum(currentTime + 1))

\* line 135: token.iat && token.iat > currentTime
IssuedInFuture(token, currentTime) ==
    /\ Truthy(GetProp(token, S_iat))
    /\ JsGreater(GetProp(token, S_iat), JNum(currentTime))

\* a variant of line 140 that reads exp as a point in time
ExpiredAbsolute(token, currentTime) ==
    /\ Truthy(GetProp(token, S_exp))
    /\ JsLess(GetProp(token, S_exp), JNum(currentTime))

\* a variant of line 140 that checks positive durations only
ExpiredIfPositive(token, currentTime) ==
    /\ JsGreater(GetProp(token, S_exp), JNum(0))
    /\ JsLess(JsAdd(GetProp(token, S_iat), GetProp(token, S_exp)), JNum(currentTime))

\* line 140: token.exp && (token.iat + token.exp) < currentTime
Expired(token, currentTime) ==
    /\ Truthy(GetProp(token, S_exp))
    /\ JsLess(JsAdd(GetProp(token, S_iat), GetProp(token, S_exp)), JNum(currentTime))

\* line 145: token.nbf && (token.iat + token.nbf) > currentTime
NotYetValid(token, currentTime) ==
    /\ Truthy(GetProp(token, S_nbf))
    /\ JsGreater(JsAdd(GetProp(token, S_iat), GetProp(token, S_nbf)), JNum(currentTime))

Returned(v) == [thrown |-> FALSE, v |-> v]
Thrown      == [thrown |-> TRUE, v |-> JUndef]

\* lines 124-149: the claims are parsed (a parse error is caught and gives
\* false), then the three time checks
VerifyClaims(tok, currentTime) ==
    IF ~tok.ok THEN Returned(JFalse)
    ELSE IF PropThrows(tok.v) THEN Thrown
    ELSE IF IssuedInFuture(tok.v, currentTime) THEN Returned(JFalse)
    ELSE IF Expired(tok.v, currentTime) THEN Returned(JFalse)
    ELSE IF NotYetValid(tok.v, currentTime) THEN Returned(JFalse)
    ELSE Returned(tok.v)

\* lines 119-122: sig is what this.signature(...) gave for the first two
\* segments
VerifySignature(jwt, sig, currentTime) ==
    IF sig.thrown THEN Thrown
    ELSE IF ~SignatureMatches(sig.s, jwt[3]) THEN Returned(JFalse)
    ELSE VerifyClaims(JSONParse(base64UrlDecode(jwt[2])), currentTime)

\* lines 107-117: hdr is the outcome of JSON.parse on the decoded first
\* segment (a parse error is caught and gives false)
VerifyHeader(jwt, hdr, currentTime) ==
    IF ~hdr.ok THEN Returned(JFalse)
    ELSE IF PropThrows(hdr.v) THEN Thrown
    ELSE IF ~Truthy(GetProp(hdr.v, S_alg)) THEN Returned(JFalse)
    ELSE VerifySignature(jwt,
                         signature(jwt[1] \o <<46>> \o jwt[2], key, GetProp(hdr.v, S_alg)),
                         currentTime)

\* lines 99-105: jwt is str.split('.')
VerifySegments(jwt, currentTime) ==
    IF Len(jwt) # 3 THEN Returned(JFalse)
    ELSE VerifyHeader(jwt, JSONParse(base64UrlDecode(jwt[1])), currentTime)

\* verifyToken(str) when the clock reads currentTime: the decoded claims,
\* false, or an exception that leaves the function
verifyToken(str, currentTime) == VerifySegments(Split(str, 46), currentTime)

(***************************************************************************)
(* Bounds                                                                  *)
(***************************************************************************)
\* the clock reads StartTime (seconds) at the start; while the codec is
\* followed it advances at most MaxTick times
StartTime == 100
MaxTick == 2
\* longest validity passed to issueToken, in seconds
MaxValidity == 1
\* tokens issued for the server's subjects
MaxTokens == 2

(***************************************************************************)
(* State                                                                   *)
(***************************************************************************)
VARIABLES
    now,        \* Math.floor(Date.now() / 1000); the server is followed at one
                \* instant, at which the tokens presented to it are new or old
    client,     \* Redis.client: 0 for null, 1 for the client of Redis.init()
    connected,  \* Redis.connected
    store,      \* the cache server: key -> [value, expireAt]
    pool,       \* token strings issued so far with the shared key
    replaced,   \* history: key -> the value last overwritten by another one
    resp,       \* the request being answered and the response it gets
    args,       \* codec: the arguments of the issueToken call
    jwt,        \* codec: what issueToken returned (undefined before the call)
    issuedAt,   \* codec: the clock at the issueToken call
    presented,  \* codec: the string passed to verifyToken
    verdict,    \* codec: what verifyToken did with it
    authz,      \* the requirePermissions middleware call being followed
    menu,       \* the toMenu call being followed
    listing,    \* what the backend answers to rdb.listUserRole for the caller
    heap,       \* the objects created so far (OpenIDClient objects, Redis
                \* clients), in creation order
    runs,       \* the exports.exchange calls in progress, one per request
    call        \* the OpenIDClient method call being followed

svars == <<client, connected, store, pool, replaced, resp>>
cvars == <<args, jwt, issuedAt, presented, verdict>>
pvars == <<authz, menu, listing>>
ovars == <<heap, runs, call>>
vars == <<now, client, connected, store, pool, replaced, resp,
          args, jwt, issuedAt, presented, verdict, authz, menu, listing,
          heap, runs, call>>

NoVerdict == [thrown |-> FALSE, v |-> JUndef]

NoResp == [route |-> "none", token |-> JUndef, status |-> 0, next |-> FALSE,
           why |-> "none", decoded |-> JUndef, user |-> JUndef, data |-> JUndef]

\* the server variables where no server runs
ServerIdle ==
    /\ client = 0
    /\ connected = FALSE
    /\ store = <<>>
    /\ pool = {}
    /\ replaced = <<>>
    /\ resp = NoResp

\* no requirePermissions call has been made
NoAuthz == [required |-> <<>>, user |-> JUndef, reply |-> JUndef, listed |-> FALSE,
            userPermissions |-> <<>>, status |-> 0, next |-> FALSE]

\* no toMenu call has been made
NoMenu == [sheet |-> JUndef, isApp |-> JUndef, userOperations |-> <<>>,
           called |-> FALSE, menu |-> JUndef]

\* the listing is not asked for
NoListing == [res |-> JUndef, error |-> JUndef]

\* the permission variables when neither call is being followed
PermissionsIdle ==
    /\ authz = NoAuthz
    /\ menu = NoMenu
    /\ listing = NoListing

\* no OpenIDClient method call has been made
NoCall == [method |-> "none", before |-> JUndef, arg |-> JUndef,
           response |-> JUndef, thrown |-> FALSE, v |-> JUndef]

\* the OIDC variables when no exchange and no client call is being followed
OidcIdle ==
    /\ heap = <<>>
    /\ runs = <<>>
    /\ call = NoCall

\* the codec variables when no codec call is being followed
CodecIdle ==
    /\ args = [iss |-> JUndef, sub |-> JUndef, payload |-> JUndef, time |-> JUndef]
    /\ jwt = JUndef
    /\ issuedAt = 0
    /\ presented = <<>>
    /\ verdict = NoVerdict

(***************************************************************************)
(* Token codec on its own: one issueToken call, then verifyToken calls on  *)
(* the token or on the token with another signature segment.               *)
(***************************************************************************)
S_a == <<97>>
S_b == <<98>>
S_u == <<117>>
S_v == <<118>>
S_p == <<112>>
S_r == <<114>>

Principals == {[iss |-> JStr(S_a), sub |-> JStr(S_u)],
               [iss |-> JStr(S_b), sub |-> JStr(S_v)]}

\* payloads that pass `if (payload)`: a string, a string that needs
\* escaping, a number, true, an object, the empty object, an array
FullPayloads ==
    {JStr(S_p), JStr(<<34, 92, 112>>), JNum(7), JBool(TRUE),
     JObj(<<[k |-> S_r, v |-> JNum(1)]>>), JObj(<<>>), JArr(<<JStr(S_a)>>)}

\* payloads that do not: null, undefined (argument omitted), '', 0, false
EmptyPayloads == {JNull, JUndef, JStr(<<>>), JNum(0), JBool(FALSE)}

\* the time argument: omitted, or a number of seconds
Validities == {JUndef} \cup {JNum(n) : n \in (0 - 1)..MaxValidity}

\* getJti(): an md5 digest in hexadecimal, a new one at every call
Jti(i) == <<99, 48 + i>>
Jtis == {Jti(1), Jti(2)}

\* the three segments of a token string
Segments(str) == Split(str, 46)

\* str with its signature segment replaced by sig
WithSignature(str, sig) ==
    Segments(str)[1] \o <<46>> \o Segments(str)[2] \o <<46>> \o sig

\* strings that differ from sig: one character changed at any position, the
\* last character dropped, a padding character added, the empty string
OtherSignatures(sig) ==
    {[sig EXCEPT ![i] = B64Char((B64Index(sig[i]) + 1) % 64)] : i \in 1..Len(sig)}
    \cup {SubSeq(sig, 1, Len(sig) - 1), sig \o <<61>>, <<>>}

CodecInit ==
    /\ now = StartTime
    /\ \E p \in Principals, pl \in FullPayloads \cup EmptyPayloads, tm \in Validities :
          args = [iss |-> p.iss, sub |-> p.sub, payload |-> pl, time |-> tm]
    /\ jwt = JUndef
    /\ issuedAt = 0
    /\ presented = <<>>
    /\ verdict = NoVerdict
    /\ ServerIdle
    /\ PermissionsIdle
    /\ OidcIdle

\* the caller runs Jwt.issueToken(iss, sub, payload, time)
CodecIssue ==
    /\ jwt = JUndef
    /\ \E j \in Jtis :
          jwt' = issueToken(args.iss, args.sub, args.payload, args.time, now, j)
    /\ issuedAt' = now
    /\ UNCHANGED <<now, args, presented, verdict>>
    /\ UNCHANGED svars
    /\ UNCHANGED pvars
    /\ UNCHANGED ovars

\* the caller runs Jwt.verifyToken on the token it was given
CodecVerify ==
    /\ jwt.t = "str"
    /\ presented = <<>>
    /\ presented' = jwt.s
    /\ verdict' = verifyToken(jwt.s, now)
    /\ UNCHANGED <<now, args, jwt, issuedAt>>
    /\ UNCHANGED svars
    /\ UNCHANGED pvars
    /\ UNCHANGED ovars

\* the caller runs Jwt.verifyToken on the token with another signature
CodecVerifyTampered ==
    /\ jwt.t = "str"
    /\ presented = <<>>
    /\ \E sig \in OtherSignatures(Segments(jwt.s)[3]) :
          /\ presented' = WithSignature(jwt.s, sig)
          /\ verdict' = verifyToken(WithSignature(jwt.s, sig), now)
    /\ UNCHANGED <<now, args, jwt, issuedAt>>
    /\ UNCHANGED svars
    /\ UNCHANGED pvars
    /\ UNCHANGED ovars

\* a second passes
CodecTick ==
    /\ presented = <<>>
    /\ now < StartTime + MaxTick
    /\ now' = now + 1
    /\ UNCHANGED <<args, jwt, issuedAt, presented, verdict>>
    /\ UNCHANGED svars
    /\ UNCHANGED pvars
    /\ UNCHANGED ovars

CodecNext == CodecIssue \/ CodecVerify \/ CodecVerifyTampered \/ CodecTick

CodecSpec == CodecInit /\ [][CodecNext]_vars

(***************************************************************************)
(* Properties of the token codec, checked under CodecSpec                  *)
(***************************************************************************)
\* verifyToken has run on the string issueToken returned
Verified == jwt.t = "str" /\ presented = jwt.s

\* verifyToken has run on that string with another signature segment
Tampered == jwt.t = "str" /\ presented # <<>> /\ presented # jwt.s

\* verifyToken returned the claims
Accepted == ~verdict.thrown /\ Truthy(verdict.v)

\* verifyToken returned false
Refused == verdict = Returned(JFalse)

\* the validity the issueToken call asked for, in seconds
Validity == IF args.time = JUndef THEN DefaultTime ELSE args.time.n

C7_TamperDetected ==
    /\ Tampered => Refused
    /\ (presented # <<>> /\ Accepted) =>
          /\ Len(Segments(presented)) = 3
          /\ Segments(presented)[3]
                = signature(Segments(presented)[1] \o <<46>> \o Segments(presented)[2],
                            key, JStr(S_HS256)).s

\* C7 case: a token valid at this time, presented with one character of its
\* signature changed, was refused
C7_Witness ==
    /\ Tampered
    /\ Len(presented) = Len(jwt.s)
    /\ args.payload \in FullPayloads
    /\ Validity >= 0
    /\ now = issuedAt
    /\ Refused

\* C8 (expiry relative to iat): for a token issued at issuedAt with any
\* validity v, zero included, verifyToken at time t returns the claims when
\* issuedAt <= t <= issuedAt + v and returns false when t > issuedAt + v.
C8_ExpiryRelativeToIat ==
    Verified =>
        /\ (issuedAt <= now /\ now <= issuedAt + Validity) => Accepted
        /\ now > issuedAt + Validity => Refused

\* C9: a token issued with validity -1 is refused by verifyToken at the
\* time of issue and at every later time.
C9_NegativeValidityRefused ==
    (Verified /\ args.time = JNum(0 - 1)) => Refused

\* C9 case: a token issued with validity -1 was refused at the very time of
\* issue
C9_Witness ==
    /\ Verified
    /\ args.time = JNum(0 - 1)
    /\ now = issuedAt
    /\ Refused

\* C10 (empty payload): issueToken called with payload null, undefined
\* (omitted), the empty string, or another falsy value returns false and no
\* token string.
C10_EmptyPayloadRejected ==
    (jwt # JUndef /\ args.payload \in EmptyPayloads) => jwt = JFalse

\* C10 case: issueToken was called without a payload and returned false
C10_Witness ==
    /\ args.payload = JUndef
    /\ jwt = JFalse

(***************************************************************************)
(* verifyToken on strings no issueToken call produced                      *)
(***************************************************************************)
S_none == <<110, 111, 110, 101>>

\* what the first segment may decode to: the codec's header, JSON values
\* that are no object, objects without a usable alg, objects naming another
\* algorithm, and texts that are not JSON
HeaderTexts ==
    {Stringify(h) : h \in {header, JNull, JNum(7), JBool(TRUE), JStr(S_a), JArr(<<>>),
                           JObj(<<>>),
                           JObj(<<[k |-> S_alg, v |-> JStr(<<>>)]>>),
                           JObj(<<[k |-> S_alg, v |-> JStr(S_none)]>>),
                           JObj(<<[k |-> S_alg, v |-> JNum(1)]>>)}}
    \cup {<<123>>, <<>>}

\* what the second segment may decode to: claims, claims issued in the
\* future, JSON values that are no object, a text that is not JSON
ClaimsTexts ==
    {Stringify(c) : c \in {JObj(<<>>), JObj(<<[k |-> S_iat, v |-> JNum(StartTime + 1)]>>),
                           JNull, JNum(7)}}
    \cup {<<120>>}

\* the string made of the two encoded texts and either the signature the
\* key gives for them or another third segment
Assembled(h, c, signed) ==
    LET input == base64UrlEncode(h) \o <<46>> \o base64UrlEncode(c)
    IN  input \o <<46>>
              \o (IF signed THEN signature(input, key, JStr(S_HS256)).s ELSE <<120>>)

\* strings that do not split into three segments
WrongSegmentCounts ==
    LET t == issueToken(JStr(S_a), JStr(S_u), JStr(S_p), JNum(0), StartTime, Jti(1)).s
    IN  {<<>>, <<120>>, <<46>>, <<120, 46, 120>>, <<46, 46, 46>>,
         t \o <<46>>, t \o <<46, 120>>,
         Segments(t)[1] \o <<46>> \o Segments(t)[2]}

MalformedInit ==
    /\ now = StartTime
    /\ CodecIdle
    /\ ServerIdle
    /\ PermissionsIdle
    /\ OidcIdle

\* the caller runs Jwt.verifyToken on a string of three segments
VerifyAssembled ==
    /\ verdict = NoVerdict
    /\ \E h \in HeaderTexts, c \in ClaimsTexts, signed \in BOOLEAN :
          /\ presented' = Assembled(h, c, signed)
          /\ verdict' = verifyToken(Assembled(h, c, signed), now)
    /\ UNCHANGED <<now, args, jwt, issuedAt>>
    /\ UNCHANGED svars
    /\ UNCHANGED pvars
    /\ UNCHANGED ovars

\* the caller runs Jwt.verifyToken on a string of fewer or more segments
VerifyWrongSegmentCount ==
    /\ verdict = NoVerdict
    /\ \E str \in WrongSegmentCounts :
          /\ presented' = str
          /\ verdict' = verifyToken(str, now)
    /\ UNCHANGED <<now, args, jwt, issuedAt>>
    /\ UNCHANGED svars
    /\ UNCHANGED pvars
    /\ UNCHANGED ovars

MalformedNext == VerifyAssembled \/ VerifyWrongSegmentCount

MalformedSpec == MalformedInit /\ [][MalformedNext]_vars

\* C11 (verify never throws): for every input string, whatever its number
\* of segments and whatever its header and claims segments decode to,
\* verifyToken returns (the claims or false) and no exception leaves it.
C11_VerifyNeverThrows == ~verdict.thrown

(***************************************************************************)
(* Session store (utils/redis.js) in front of the cache server             *)
(***************************************************************************)
S_user   == <<117, 115, 101, 114, 45>>
S_Bearer == <<66, 101, 97, 114, 101, 114, 32>>

\* the TTL the session entries are written with
SessionTTL == 600

\* `user-${sub}`
SessionKey(sub) == S_user \o ToStr(sub)

\* a variant of getClient() that only asks for the client object
ClientCreated == client # 0

\* getClient() returns the client; otherwise it raises 'Redis未连接'
ClientUsable == client # 0 /\ connected

Put(st, k, e) == [x \in (DOMAIN st) \cup {k} |-> IF x = k THEN e ELSE st[x]]
Remove(st, k) == [x \in (DOMAIN st) \ {k} |-> st[x]]

\* Redis.set(key, value, ttl = null) at time t: SETEX when ttl is truthy
\* (the server refuses a non-positive expiry), SET otherwise
RedisSet(st, k, value, ttl, t) ==
    IF ~ClientUsable THEN [thrown |-> TRUE, store |-> st]
    ELSE IF Truthy(ttl) THEN
        IF ToNumber(ttl).t # "num" \/ ToNumber(ttl).n <= 0
        THEN [thrown |-> TRUE, store |-> st]
        ELSE [thrown |-> FALSE,
              store |-> Put(st, k, [value |-> value, expireAt |-> t + ToNumber(ttl).n])]
    ELSE [thrown |-> FALSE, store |-> Put(st, k, [value |-> value, expireAt |-> 0])]

\* Redis.get(key): the stored string or null
RedisGet(st, k) ==
    IF ~ClientUsable THEN Thrown
    ELSE IF k \in DOMAIN st THEN Returned(JStr(st[k].value))
    ELSE Returned(JNull)

\* Redis.del(key): the number of keys removed
RedisDel(st, k) ==
    IF ~ClientUsable THEN [thrown |-> TRUE, store |-> st, v |-> JUndef]
    ELSE [thrown |-> FALSE, store |-> Remove(st, k),
          v |-> JNum(IF k \in DOMAIN st THEN 1 ELSE 0)]

(***************************************************************************)
(* Request gate (middleware/auth.js)                                       *)
(***************************************************************************)
S_id       == <<105, 100>>
S_username == <<117, 115, 101, 114, 110, 97, 109, 101>>
S_token    == <<116, 111, 107, 101, 110>>

\* req.headers['x-session-token'] ||
\* req.headers['authorization']?.replace('Bearer ', '') || req.query.token
ExtractToken(req) ==
    LET bearer == IF req.authorization.t = "str"
                  THEN JStr(ReplaceFirst(req.authorization.s, S_Bearer, <<>>))
                  ELSE JUndef
    IN  IF Truthy(req.xSessionToken) THEN req.xSessionToken
        ELSE IF Truthy(bearer) THEN bearer
        ELSE req.queryToken

\* a 401 answer; decoded is what the handler's variable of that name held
Reject(why, decoded) ==
    [status |-> 401, next |-> FALSE, why |-> why, decoded |-> decoded, user |-> JUndef]

\* a variant of line 57 that only asks for an entry
CachePresentOnly(cachedToken, token) == ~Truthy(cachedToken)

\* line 57: !cachedToken || cachedToken !== token
CacheMismatch(cachedToken, token) == ~Truthy(cachedToken) \/ cachedToken # token

\* lines 53-78: cachedToken is the outcome of Redis.get(`user-${decoded.sub}`)
CheckCached(token, decoded, cachedToken) ==
    IF cachedToken.thrown THEN Reject("error", decoded)
    ELSE IF CacheMismatch(cachedToken.v, token) THEN Reject("stale", decoded)
    ELSE [status |-> 0, next |-> TRUE, why |-> "ok", decoded |-> decoded,
          user |-> JObj(<<[k |-> S_id, v |-> GetProp(decoded, S_sub)],
                          [k |-> S_username, v |-> GetProp(decoded, S_sub)],
                          [k |-> S_token, v |-> token],
                          [k |-> S_payload, v |-> GetProp(decoded, S_payload)]>>)]

\* lines 43-53: decoded is the outcome of Jwt.verifyToken(token); an
\* exception is caught at line 79
CheckDecoded(token, decoded) ==
    IF decoded.thrown THEN Reject("error", JUndef)
    ELSE IF ~Truthy(decoded.v) THEN Reject("invalid", decoded.v)
    ELSE CheckCached(token, decoded.v,
                     RedisGet(store, SessionKey(GetProp(decoded.v, S_sub))))

\* a variant of lines 35-43 that decodes the claims segment where the code
\* verifies the token
CheckTokenDecodeOnly(token) ==
    IF ~Truthy(token) THEN Reject("missing", JUndef)
    ELSE IF Len(Split(token.s, 46)) # 3 THEN Reject("invalid", JFalse)
    ELSE CheckDecoded(token,
                      Returned(JSONParse(base64UrlDecode(Split(token.s, 46)[2])).v))

\* lines 35-43: token is the credential taken from the request
CheckToken(token) ==
    IF ~Truthy(token) THEN Reject("missing", JUndef)
    ELSE CheckDecoded(token, verifyToken(token.s, now))

\* tokenCheck(req, res, next): either next() is called with req.user set,
\* or a 401 response is sent
tokenCheck(req) == CheckToken(ExtractToken(req))

(***************************************************************************)
(* Handlers (controllers/authController.js): what each sends and the       *)
(* store it leaves                                                         *)
(***************************************************************************)
Sent(status, data, st) == [status |-> status, data |-> data, store |-> st]

\* exports.logout: answers success; the cache is not touched
logout(user, st) == Sent(200, JUndef, st)

\* exports.refreshToken: answers with the presented token; the cache is not
\* touched
refreshToken(user, st) == Sent(200, GetProp(user, S_token), st)

\* exports.supervisorLogin for the request body and the [admin, error]
\* pair that Curl.api('rdb.login').request(loginData) yields
supervisorLogin(body, admin, error, st) ==
    IF ~Truthy(body.username) \/ ~Truthy(body.password) THEN Sent(400, JUndef, st)
    ELSE IF Truthy(error) THEN Sent(401, JUndef, st)
    ELSE IF ~Truthy(admin) \/ ~Truthy(GetProp(admin, S_token)) THEN Sent(401, JUndef, st)
    ELSE Sent(200, GetProp(admin, S_token), st)

S_pach_token == <<112, 97, 99, 104, 95, 116, 111, 107, 101, 110>>
S_id_token   == <<105, 100, 95, 116, 111, 107, 101, 110>>

\* a variant of exports.exchange that caches the provider's ID token under
\* the authorization code as soon as it has one, before it asks the auth
\* backend
ExchangeCachesFirst(body, provider, result, error, st) ==
    IF ~Truthy(body.code) THEN Sent(400, JUndef, st)
    ELSE IF provider.failed THEN Sent(500, JUndef, st)
    ELSE IF ~Truthy(GetProp(provider.data, S_id_token)) THEN Sent(400, JUndef, st)
    ELSE LET cached == Put(st, body.code.s,
                           [value |-> GetProp(provider.data, S_id_token).s,
                            expireAt |-> 0])
         IN  IF Truthy(error) THEN Sent(500, JUndef, cached)
             ELSE IF PropThrows(result) THEN Sent(500, JUndef, cached)
             ELSE Sent(200, GetProp(result, S_pach_token), cached)

\* exports.exchange for the request body, the outcome of
\* oidc.requestTokens(code) (failed, or the provider's token data) and the
\* [result, error] pair of Curl.api('auth.authenticate').request({idToken});
\* an exception goes to next(error), which answers 500
exchange(body, provider, result, error, st) ==
    IF ~Truthy(body.code) THEN Sent(400, JUndef, st)
    ELSE IF provider.failed THEN Sent(500, JUndef, st)
    ELSE IF ~Truthy(GetProp(provider.data, S_id_token)) THEN Sent(400, JUndef, st)
    ELSE IF Truthy(error) THEN Sent(500, JUndef, st)
    ELSE IF PropThrows(result) THEN Sent(500, JUndef, st)
    ELSE Sent(200, GetProp(result, S_pach_token), st)

(***************************************************************************)
(* The server: requests, logins, tokens issued and store calls made by     *)
(* other holders of the key and of the cache                               *)
(***************************************************************************)
Subjects == {JStr(S_u), JStr(S_v)}

\* the claims a token string carries (read without any check)
ClaimsOf(str) == JSONParse(base64UrlDecode(Segments(str)[2])).v

\* a token string of the pool with its signature segment altered
Forged(str) ==
    LET sig == Segments(str)[3]
    IN  WithSignature(str, [sig EXCEPT ![1] = B64Char((B64Index(sig[1]) + 1) % 64)])

\* strings that are not tokens: one segment, and three segments whose header
\* is the JSON text null
Garbage ==
    {<<120>>,
     base64UrlEncode(<<110, 117, 108, 108>>) \o <<46, 101, 51, 48, 46, 120>>}

Request(x, a, q) == [xSessionToken |-> x, authorization |-> a, queryToken |-> q]

\* a request without credential, with one in the session header (a token
\* of the pool, a string that is no token) or with an altered token in the
\* Authorization header
Requests ==
    {Request(JUndef, JUndef, JUndef)}
    \cup {Request(JStr(c), JUndef, JUndef) : c \in pool \cup Garbage}
    \cup {Request(JUndef, JStr(S_Bearer \o Forged(tk)), JUndef) : tk \in pool}

\* the record of a request that went through tokenCheck and, when the gate
\* called next(), through the handler's answer h
Gated(route, req, gate, h) ==
    [route |-> route, token |-> ExtractToken(req),
     status |-> IF gate.next THEN h.status ELSE gate.status,
     next |-> gate.next, why |-> gate.why, decoded |-> gate.decoded,
     user |-> gate.user,
     data |-> IF gate.next THEN h.data ELSE JUndef]

\* the record of a request to a public route
Public(route, h) ==
    [route |-> route, token |-> JUndef, status |-> h.status,
     next |-> FALSE, why |-> "public", decoded |-> JUndef, user |-> JUndef,
     data |-> h.data]

\* app.js has run Redis.init(); the client has not yet reported 'ready'
Init ==
    /\ now = StartTime
    /\ client = 1
    /\ connected = FALSE
    /\ store = <<>>
    /\ pool = {}
    /\ replaced = <<>>
    /\ resp = NoResp
    /\ CodecIdle
    /\ PermissionsIdle
    /\ OidcIdle

\* POST /auth/logout once tokenCheck has answered: exports.logout runs when
\* the gate called next()
Logout(req, gate) ==
    LET h == logout(gate.user, store)
    IN  /\ resp' = Gated("logout", req, gate, h)
        /\ store' = IF gate.next THEN h.store ELSE store

\* POST /auth/refresh once tokenCheck has answered: exports.refreshToken
\* runs when the gate called next()
Refresh(req, gate) ==
    LET h == refreshToken(gate.user, store)
    IN  /\ resp' = Gated("refresh", req, gate, h)
        /\ store' = IF gate.next THEN h.store ELSE store

\* a request to a route behind AuthMiddleware.tokenCheck
Authenticated ==
    /\ resp = NoResp
    /\ \E req \in Requests :
          LET gate == tokenCheck(req)
          IN  Logout(req, gate) \/ Refresh(req, gate)
    /\ UNCHANGED <<now, client, connected, pool, replaced>>
    /\ UNCHANGED cvars
    /\ UNCHANGED pvars
    /\ UNCHANGED ovars

\* the subject a token string was issued for
SubjectOf(str) == GetProp(ClaimsOf(str), S_sub)

\* what Curl.api('rdb.login').request(loginData) can yield: an error, no
\* admin, an admin without token, an admin with a token of the pool
LoginOutcomes ==
    {[admin |-> JNull, error |-> JStr(<<101>>)],
     [admin |-> JNull, error |-> JNull],
     [admin |-> JObj(<<>>), error |-> JNull]}
    \cup {[admin |-> JObj(<<[k |-> S_token, v |-> JStr(tk)]>>), error |-> JNull] :
            tk \in pool}

\* POST /auth/supervisor
SupervisorLogin ==
    /\ resp = NoResp
    /\ \E username \in Subjects \cup {JUndef}, password \in {JStr(S_p), JUndef},
          o \in LoginOutcomes :
          LET h == supervisorLogin([username |-> username, password |-> password],
                                   o.admin, o.error, store)
          IN  /\ resp' = Public("supervisor", h)
              /\ store' = h.store
    /\ UNCHANGED <<now, client, connected, pool, replaced>>
    /\ UNCHANGED cvars
    /\ UNCHANGED pvars
    /\ UNCHANGED ovars

\* what oidc.requestTokens(code) can yield: an exception, token data
\* without ID token, token data with one
ProviderOutcomes ==
    {[failed |-> TRUE, data |-> JUndef],
     [failed |-> FALSE, data |-> JObj(<<>>)],
     [failed |-> FALSE, data |-> JObj(<<[k |-> S_id_token, v |-> JStr(<<105>>)]>>)]}

\* what Curl.api('auth.authenticate').request({idToken}) can yield
AuthenticateOutcomes ==
    {[result |-> JNull, error |-> JStr(<<101>>)],
     [result |-> JNull, error |-> JNull],
     [result |-> JObj(<<>>), error |-> JNull]}
    \cup {[result |-> JObj(<<[k |-> S_pach_token, v |-> JStr(tk)]>>), error |-> JNull] :
            tk \in pool}

\* POST /auth/authenticate
Exchange ==
    /\ resp = NoResp
    /\ \E code \in {JStr(<<99>>), JUndef}, pr \in ProviderOutcomes,
          o \in AuthenticateOutcomes :
          LET h == exchange([code |-> code], pr, o.result, o.error, store)
          IN  /\ resp' = Public("authenticate", h)
              /\ store' = h.store
    /\ UNCHANGED <<now, client, connected, pool, replaced>>
    /\ UNCHANGED cvars
    /\ UNCHANGED pvars
    /\ UNCHANGED ovars

\* the response has gone out and the request is over
Deliver ==
    /\ resp # NoResp
    /\ resp' = NoResp
    /\ UNCHANGED <<now, client, connected, store, pool, replaced>>
    /\ UNCHANGED cvars
    /\ UNCHANGED pvars
    /\ UNCHANGED ovars

\* a holder of the shared key (the auth backend, the test script) has run
\* Jwt.issueToken for a subject, just now or long enough ago for the
\* validity to be over
IssueSessionToken ==
    /\ resp = NoResp
    /\ Cardinality(pool) < MaxTokens
    /\ \E sub \in Subjects, age \in {0, MaxValidity + 1} :
          pool' = pool \cup {issueToken(JStr(S_a), sub, JStr(S_p), JNum(MaxValidity),
                                        now - age, Jti(Cardinality(pool) + 1)).s}
    /\ UNCHANGED <<now, client, connected, store, replaced, resp>>
    /\ UNCHANGED cvars
    /\ UNCHANGED pvars
    /\ UNCHANGED ovars

\* a login writes the session: a caller of the store runs
\* Redis.set('user-' + sub, token, ttl) for a token of the pool, as
\* test-auth.js does
StoreSet ==
    /\ resp = NoResp
    /\ \E tk \in pool, ttl \in {JNum(SessionTTL)} :
          LET k == SessionKey(SubjectOf(tk))
              r == RedisSet(store, k, tk, ttl, now)
          IN  /\ ~r.thrown
              /\ store' = r.store
              /\ replaced' = IF k \in DOMAIN store /\ store[k].value # tk
                              THEN Put(replaced, k, store[k].value)
                              ELSE replaced
    /\ UNCHANGED <<now, client, connected, pool, resp>>
    /\ UNCHANGED cvars
    /\ UNCHANGED pvars
    /\ UNCHANGED ovars

\* a caller of the store runs Redis.del('user-' + sub)
StoreDel ==
    /\ resp = NoResp
    /\ \E sub \in Subjects :
          LET r == RedisDel(store, SessionKey(sub))
          IN  /\ ~r.thrown
              /\ r.v = JNum(1)
              /\ store' = r.store
    /\ UNCHANGED <<now, client, connected, pool, replaced, resp>>
    /\ UNCHANGED cvars
    /\ UNCHANGED pvars
    /\ UNCHANGED ovars

\* the client emits 'ready'
ClientReady ==
    /\ resp = NoResp
    /\ client # 0
    /\ ~connected
    /\ connected' = TRUE
    /\ UNCHANGED <<now, client, store, pool, replaced, resp>>
    /\ UNCHANGED cvars
    /\ UNCHANGED pvars
    /\ UNCHANGED ovars

\* the client emits 'error' or 'end'
ClientDown ==
    /\ resp = NoResp
    /\ client # 0
    /\ connected
    /\ connected' = FALSE
    /\ UNCHANGED <<now, client, store, pool, replaced, resp>>
    /\ UNCHANGED cvars
    /\ UNCHANGED pvars
    /\ UNCHANGED ovars

Next ==
    \/ Authenticated
    \/ SupervisorLogin
    \/ Exchange
    \/ Deliver
    \/ IssueSessionToken
    \/ StoreSet
    \/ StoreDel
    \/ ClientReady
    \/ ClientDown

Spec == Init /\ [][Next]_vars

(***************************************************************************)
(* Properties of the server, checked under Spec                            *)
(***************************************************************************)
\* the request being answered went through tokenCheck
GatedRequest == resp.route \in {"logout", "refresh"}

\* the cache server holds value under the key named
Holds(name, value) == name \in DOMAIN store /\ store[name].value = value

\* C1 (single session per subject): a request whose token passes
\* verifyToken for subject S while the entry "user-"+S holds another value
\* (a later login has overwritten it) is answered 401 and not handed on.
C1_SingleSession ==
    (GatedRequest /\ Truthy(resp.decoded)) =>
        LET k == SessionKey(GetProp(resp.decoded, S_sub))
        IN  (k \in DOMAIN store /\ JStr(store[k].value) # resp.token) =>
                resp.status = 401 /\ ~resp.next

\* C1 case: the entry was written with the presented token and then with
\* another one; the presented token passed verifyToken and the request was
\* answered 401
C1_Witness ==
    /\ GatedRequest
    /\ Truthy(resp.decoded)
    /\ LET k == SessionKey(GetProp(resp.decoded, S_sub))
       IN  /\ k \in DOMAIN replaced
           /\ JStr(replaced[k]) = resp.token
           /\ k \in DOMAIN store
           /\ store[k].value # replaced[k]
    /\ resp.why = "stale"
    /\ resp.status = 401

\* decoded, the outcome of verifyToken on the presented credential, is the
\* claims, and the cache holds the credential under "user-"+sub
VerifiedAndCached(decoded) ==
    /\ ~decoded.thrown
    /\ Truthy(decoded.v)
    /\ Holds(SessionKey(GetProp(decoded.v, S_sub)), resp.token.s)

\* C2 (gate): tokenCheck calls next() only for a credential that passes
\* verifyToken and equals the value the cache holds under "user-"+sub; a
\* request it does not hand on is answered 401.
C2_Gate ==
    GatedRequest =>
        /\ resp.next =>
              /\ Truthy(resp.token)
              /\ VerifiedAndCached(verifyToken(resp.token.s, now))
        /\ ~resp.next => resp.status = 401

\* C2 case: a request was handed on to its handler
C2_Witness ==
    /\ GatedRequest
    /\ resp.next
    /\ resp.why = "ok"
    /\ resp.status = 200

\* C3 (logout revokes the session): once an authenticated POST /auth/logout
\* has answered success for subject S, the cache holds no entry "user-"+S
\* (so that the same token is refused from then on).
C3_LogoutRevokes ==
    (resp.route = "logout" /\ resp.next /\ resp.status = 200) =>
        SessionKey(GetProp(resp.user, S_id)) \notin DOMAIN store

\* C4 (admin login creates the session): when POST /auth/supervisor answers
\* success with a token, the cache holds that token under "user-"+subject
\* with 600 seconds to live.
C4_AdminLoginWritesSession ==
    (resp.route = "supervisor" /\ resp.status = 200) =>
        LET k == SessionKey(SubjectOf(resp.data.s))
        IN  /\ Holds(k, resp.data.s)
            /\ store[k].expireAt = now + SessionTTL

\* C5 (OIDC login creates the session): when POST /auth/authenticate
\* answers success with a system token, the exchange has written the
\* session entry of the token's subject.
C5_ExchangeWritesSession ==
    (resp.route = "authenticate" /\ resp.status = 200 /\ resp.data.t = "str") =>
        Holds(SessionKey(SubjectOf(resp.data.s)), resp.data.s)

(***************************************************************************)
(* Permission check (middleware/auth.js): requirePermissions and           *)
(* getUserPermissions                                                      *)
(***************************************************************************)
S_result     == <<114, 101, 115, 117, 108, 116>>
S_operations == <<111, 112, 101, 114, 97, 116, 105, 111, 110, 115>>
S_read       == <<114, 101, 97, 100>>
S_write      == <<119, 114, 105, 116, 101>>
S_delete     == <<100, 101, 108, 101, 116, 101>>

\* operations.push(...x): the elements of an array or the characters of a
\* string; any other value is not iterable and the spread raises a TypeError
Spread(x) ==
    IF x.t = "arr" THEN [thrown |-> FALSE, items |-> x.a]
    ELSE IF x.t = "str"
    THEN [thrown |-> FALSE, items |-> [i \in 1..Len(x.s) |-> JStr(<<x.s[i]>>)]]
    ELSE [thrown |-> TRUE, items |-> <<>>]

\* operations.push(...tmp.result.operations) inside the try of the loop body
PushOperations(spread, operations) ==
    IF spread.thrown THEN operations ELSE operations \o spread.items

\* if (tmp.result && tmp.result.operations), for a tmp.result that is given
ResolveResult(result, operations) ==
    IF ~Truthy(result) THEN operations
    ELSE IF ~Truthy(GetProp(result, S_operations)) THEN operations
    ELSE PushOperations(Spread(GetProp(result, S_operations)), operations)

\* the loop body: tmp is the outcome of JSON.parse(line); a parse error and a
\* TypeError are both caught and the line is skipped
ResolveLine(tmp, operations) ==
    IF ~tmp.ok THEN operations
    ELSE IF PropThrows(tmp.v) THEN operations
    ELSE ResolveResult(GetProp(tmp.v, S_result), operations)

\* for (const line of lines) { ... }
RECURSIVE ResolveLines(_, _, _)
ResolveLines(lines, i, operations) ==
    IF i > Len(lines) THEN operations
    ELSE ResolveLines(lines, i + 1, ResolveLine(JSONParse(lines[i]), operations))

\* values a Set compares by value; objects and arrays are compared by
\* identity, and every JSON.parse result is a new object
IsPrimitive(v) == v.t \notin {"obj", "arr"}

\* [...new Set(operations)]: the first occurrence of every value, in order
RECURSIVE Unique(_, _, _)
Unique(a, i, acc) ==
    IF i > Len(a) THEN acc
    ELSE IF IsPrimitive(a[i]) /\ \E j \in 1..Len(acc) : acc[j] = a[i]
    THEN Unique(a, i + 1, acc)
    ELSE Unique(a, i + 1, Append(acc, a[i]))

\* getUserPermissions(token, username) when Curl.api('rdb.listUserRole',
\* token).request(data, false) resolved to [reply.res, reply.error]: an
\* error, and a res that has no split method, end in the catch that returns []
getUserPermissions(reply) ==
    IF Truthy(reply.error) THEN <<>>
    ELSE IF reply.res.t # "str" THEN <<>>
    ELSE Unique(ResolveLines(Split(reply.res.s, 10), 1, <<>>), 1, <<>>)

\* userPermissions.includes(permission)
Includes(a, v) == \E i \in 1..Len(a) : a[i] = v

\* a variant of lines 203-205 with every in place of some
HasEveryPermission(requiredPermissions, userPermissions) ==
    \A i \in 1..Len(requiredPermissions) : Includes(userPermissions, requiredPermissions[i])

\* a variant of lines 203-205 that lets a caller without operations pass
hasPermissionOrNone(requiredPermissions, userPermissions) ==
    \/ Len(userPermissions) = 0
    \/ \E i \in 1..Len(requiredPermissions) : Includes(userPermissions, requiredPermissions[i])

\* lines 203-205: requiredPermissions.some(p => userPermissions.includes(p))
hasPermission(requiredPermissions, userPermissions) ==
    \E i \in 1..Len(requiredPermissions) : Includes(userPermissions, requiredPermissions[i])

\* a variant of line 195 that never takes the shortcut
NeverPassDirectly(requiredPermissions) == FALSE

\* line 195: requiredPermissions.length === 0
NoneRequired(requiredPermissions) == Len(requiredPermissions) = 0

\* a variant of lines 207-215 without the return in front of res.status(403)
CheckPermissionsNoReturn(requiredPermissions, userPermissions) ==
    IF ~hasPermission(requiredPermissions, userPermissions)
    THEN [listed |-> TRUE, userPermissions |-> userPermissions, status |-> 403,
          next |-> TRUE]
    ELSE [listed |-> TRUE, userPermissions |-> userPermissions, status |-> 0,
          next |-> TRUE]

\* lines 199-215: userPermissions is what getUserPermissions returned
CheckPermissions(requiredPermissions, userPermissions) ==
    IF ~hasPermission(requiredPermissions, userPermissions)
    THEN [listed |-> TRUE, userPermissions |-> userPermissions, status |-> 403,
          next |-> FALSE]
    ELSE [listed |-> TRUE, userPermissions |-> userPermissions, status |-> 0,
          next |-> TRUE]

\* the middleware requirePermissions(requiredPermissions) returns, run on a
\* request whose req.user is user; reply is what the listing call resolves
\* to if it is made
requirePermissions(requiredPermissions, user, reply) ==
    IF ~Truthy(user)
    THEN [listed |-> FALSE, userPermissions |-> <<>>, status |-> 401, next |-> FALSE]
    ELSE IF NoneRequired(requiredPermissions)
    THEN [listed |-> FALSE, userPermissions |-> <<>>, status |-> 0, next |-> TRUE]
    ELSE CheckPermissions(requiredPermissions, getUserPermissions(reply))

(***************************************************************************)
(* A route guarded by tokenCheck and requirePermissions, on its own: the   *)
(* request has passed tokenCheck, the middleware runs once                 *)
(***************************************************************************)
\* req.user as tokenCheck sets it for the holder of a cached token
AuthenticatedUser(sub) ==
    LET t == issueToken(JStr(S_a), sub, JStr(S_p), JNum(MaxValidity), StartTime, Jti(1))
    IN  CheckCached(t, JSONParse(base64UrlDecode(Split(t.s, 46)[2])).v, Returned(t)).user

AuthenticatedUsers == {AuthenticatedUser(sub) : sub \in Subjects}

\* the lists the routes pass to requirePermissions: none, one operation,
\* several operations
RequiredLists ==
    {<<>>, <<JStr(S_read)>>, <<JStr(S_write)>>, <<JStr(S_read), JStr(S_write)>>,
     <<JStr(S_write), JStr(S_delete)>>}

\* one line of the listing: a record carrying result.operations
Record(operations) ==
    Stringify(JObj(<<[k |-> S_result,
                     v |-> JObj(<<[k |-> S_operations, v |-> operations]>>)]>>))

\* the lines a listing may hold: records with operations arrays, records
\* whose operations is no array, records without result, JSON that is no
\* object, a blank line, a line that is not JSON
LineTexts ==
    {Record(JArr(<<JStr(S_read), JStr(S_write)>>)),
     Record(JArr(<<JStr(S_read)>>)),
     Record(JArr(<<JStr(S_delete), JStr(S_read)>>)),
     Record(JArr(<<>>)),
     Record(JStr(<<114, 119>>)),
     Record(JNum(7)),
     Stringify(JObj(<<[k |-> S_result, v |-> JNull]>>)),
     Stringify(JObj(<<>>)),
     Stringify(JNull),
     <<>>,
     <<123>>}

\* most lines in a listing
MaxLines == 2

RECURSIVE JoinLines(_, _)
JoinLines(lines, i) ==
    IF i > Len(lines) THEN <<>>
    ELSE IF i = Len(lines) THEN lines[i]
    ELSE lines[i] \o <<10>> \o JoinLines(lines, i + 1)

\* the texts of up to MaxLines lines
ListingTexts ==
    UNION {{JoinLines(lines, 1) : lines \in [1..n -> LineTexts]} : n \in 0..MaxLines}

\* what Curl.api('rdb.listUserRole', token).request(data, false) resolves to:
\* [text, null], [null, message], or a body that is no string
ListingReplies ==
    {[res |-> JStr(t), error |-> JNull] : t \in ListingTexts}
    \cup {[res |-> JNull, error |-> JStr(<<101>>)],
          [res |-> JObj(<<[k |-> S_result, v |-> JObj(<<>>)]>>), error |-> JNull]}

AuthorizeInit ==
    /\ now = StartTime
    /\ CodecIdle
    /\ ServerIdle
    /\ PermissionsIdle
    /\ OidcIdle

\* a request that passed tokenCheck reaches requirePermissions(required)
Authorize ==
    /\ authz = NoAuthz
    /\ \E user \in AuthenticatedUsers, required \in RequiredLists, reply \in ListingReplies :
          LET r == requirePermissions(required, user, reply)
          IN  authz' = [required |-> required, user |-> user, reply |-> reply,
                        listed |-> r.listed, userPermissions |-> r.userPermissions,
                        status |-> r.status, next |-> r.next]
    /\ UNCHANGED <<now, menu, listing>>
    /\ UNCHANGED svars
    /\ UNCHANGED cvars
    /\ UNCHANGED ovars

AuthorizeNext == Authorize

AuthorizeSpec == AuthorizeInit /\ [][AuthorizeNext]_vars

(***************************************************************************)
(* Properties of the permission check, checked under AuthorizeSpec         *)
(***************************************************************************)
\* the middleware has run
Authorized == authz # NoAuthz

\* the operations getUserPermissions resolved for the caller, as a set
ResolvedOperations == {authz.userPermissions[i] : i \in 1..Len(authz.userPermissions)}

\* C12 (OR semantics): for an authenticated caller with resolved operation
\* set U and a non-empty required list R, the middleware calls next exactly
\* when some element of R is in U, and otherwise answers 403.
C12_AnyRequiredOperation ==
    (Authorized /\ Truthy(authz.user) /\ authz.required # <<>>) =>
        /\ authz.next <=> (\E i \in 1..Len(authz.required) :
                              authz.required[i] \in ResolvedOperations)
        /\ ~authz.next => authz.status = 403
        /\ authz.next => authz.status = 0

\* C12 case: U = {read}, R = [read, write] was passed on
C12_Witness ==
    /\ Authorized
    /\ ResolvedOperations = {JStr(S_read)}
    /\ authz.required = <<JStr(S_read), JStr(S_write)>>
    /\ authz.next

ArrayElements(v) == IF v.t = "arr" THEN {v.a[i] : i \in 1..Len(v.a)} ELSE {}

\* the elements of the result.operations array of a line that parses as JSON
LineOperations(tmp) ==
    IF ~tmp.ok THEN {}
    ELSE ArrayElements(GetProp(GetProp(tmp.v, S_result), S_operations))

\* the listing answered with a text, which getUserPermissions resolved
ResolvedText == Authorized /\ authz.listed /\ authz.reply.res.t = "str"

\* C14 (permission resolution): for every input text the resolver returns
\* exactly the set of all elements of the result.operations arrays of the
\* newline-separated lines that parse as JSON; blank and unparsable lines
\* are skipped, and a text without a valid line gives the empty set.
C14_ResolvesOperationArrays ==
    ResolvedText =>
        ResolvedOperations
            = UNION {LineOperations(JSONParse(l)) :
                        l \in {Split(authz.reply.res.s, 10)[i] :
                                  i \in 1..Len(Split(authz.reply.res.s, 10))}}

(***************************************************************************)
(* Menu builder (controllers/account.controller.js): toMenu                *)
(***************************************************************************)
S_key      == <<107, 101, 121>>
S_name     == <<110, 97, 109, 101>>
S_path     == <<112, 97, 116, 104>>
S_icon     == <<105, 99, 111, 110>>
S_order    == <<111, 114, 100, 101, 114>>
S_parent   == <<112, 97, 114, 101, 110, 116>>
S_app      == <<97, 112, 112>>
S_children == <<99, 104, 105, 108, 100, 114, 101, 110>>

\* v || d
OrElse(v, d) == IF Truthy(v) THEN v ELSE d

\* lines 40-48: the menu item built from a descriptor
MenuItem(operation) ==
    JObj(<<[k |-> S_key, v |-> GetProp(operation, S_key)],
           [k |-> S_name, v |-> OrElse(GetProp(operation, S_name), GetProp(operation, S_key))],
           [k |-> S_path, v |-> OrElse(GetProp(operation, S_path), JStr(<<>>))],
           [k |-> S_icon, v |-> OrElse(GetProp(operation, S_icon), JStr(<<>>))],
           [k |-> S_order, v |-> OrElse(GetProp(operation, S_order), JNum(0))],
           [k |-> S_parent, v |-> OrElse(GetProp(operation, S_parent), JNull)],
           [k |-> S_children, v |-> JArr(<<>>)]>>)

\* lines 54-61: the node made for a parent key the map does not hold
Placeholder(parent) ==
    JObj(<<[k |-> S_key, v |-> parent],
           [k |-> S_name, v |-> parent],
           [k |-> S_path, v |-> JStr(<<>>)],
           [k |-> S_icon, v |-> JStr(<<>>)],
           [k |-> S_order, v |-> JNum(0)],
           [k |-> S_children, v |-> JArr(<<>>)]>>)

\* node.children.push(item)
PushChild(node, item) ==
    JObj(SetMember(node.m, S_children, JArr(Append(GetProp(node, S_children).a, item))))

\* lines 53-62: the map once menu[parent] exists
EnsureParent(m, parent) ==
    IF ~Truthy(Lookup(m, ToStr(parent), Len(m)))
    THEN SetMember(m, ToStr(parent), Placeholder(parent))
    ELSE m

\* line 64, on the map that holds the parent
AddChild(m, parent, item) ==
    SetMember(m, ToStr(parent), PushChild(Lookup(m, ToStr(parent), Len(m)), item))

\* lines 50-68: the item goes under its parent or into the map itself
Attach(m, operation, item) ==
    IF Truthy(GetProp(operation, S_parent))
    THEN AddChild(EnsureParent(m, GetProp(operation, S_parent)),
                  GetProp(operation, S_parent), item)
    ELSE SetMember(m, ToStr(GetProp(operation, S_key)), item)

\* line 30: !userOperations.includes(operation.key)
NotAllowed(userOperations, operation) ==
    ~Includes(userOperations, GetProp(operation, S_key))

\* a variant of line 35 that shows every descriptor in the app
ShownInApp(isApp, operation) == FALSE

\* line 35: isApp && !operation.app
HiddenInApp(isApp, operation) == Truthy(isApp) /\ ~Truthy(GetProp(operation, S_app))

\* lines 28-69: the callback of sheet.operations.forEach
AddOperation(m, operation, isApp, userOperations) ==
    IF NotAllowed(userOperations, operation) THEN m
    ELSE IF HiddenInApp(isApp, operation) THEN m
    ELSE Attach(m, operation, MenuItem(operation))

RECURSIVE ForEachOperation(_, _, _, _, _)
ForEachOperation(operations, i, m, isApp, userOperations) ==
    IF i > Len(operations) THEN m
    ELSE ForEachOperation(operations, i + 1,
                          AddOperation(m, operations[i], isApp, userOperations),
                          isApp, userOperations)

\* line 74: (a.order || 0) - (b.order || 0), for orders that are numbers
CompareOrder(a, b) ==
    OrElse(GetProp(a, S_order), JNum(0)).n - OrElse(GetProp(b, S_order), JNum(0)).n

\* item placed in a sorted list behind every element that does not come
\* after it
RECURSIVE InsertByOrder(_, _, _)
InsertByOrder(sorted, item, i) ==
    IF i > Len(sorted) THEN Append(sorted, item)
    ELSE IF CompareOrder(sorted[i], item) > 0
    THEN SubSeq(sorted, 1, i - 1) \o <<item>> \o SubSeq(sorted, i, Len(sorted))
    ELSE InsertByOrder(sorted, item, i + 1)

RECURSIVE SortFrom(_, _, _)
SortFrom(children, i, sorted) ==
    IF i > Len(children) THEN sorted
    ELSE SortFrom(children, i + 1, InsertByOrder(sorted, children[i], 1))

\* a variant of line 74 that leaves the list as it was built
Unsorted(children) == children

\* Array.prototype.sort with the comparator of line 74: a stable sort
SortChildren(children) == SortFrom(children, 1, <<>>)

\* lines 73-75 for one node of the map
SortNode(node) ==
    IF Truthy(GetProp(node, S_children)) /\ Len(GetProp(node, S_children).a) > 0
    THEN JObj(SetMember(node.m, S_children, JArr(SortChildren(GetProp(node, S_children).a))))
    ELSE node

\* lines 72-76: Object.keys(menu).forEach(...)
SortMenu(m) == [i \in 1..Len(m) |-> [k |-> m[i].k, v |-> SortNode(m[i].v)]]

\* toMenu(sheet, isApp, userOperations): the map from key to top-level node
toMenu(sheet, isApp, userOperations) ==
    IF ~Truthy(sheet) THEN JObj(<<>>)
    ELSE IF ~Truthy(GetProp(sheet, S_operations)) THEN JObj(<<>>)
    ELSE JObj(SortMenu(ForEachOperation(GetProp(sheet, S_operations).a, 1, <<>>,
                                        isApp, userOperations)))

(***************************************************************************)
(* The menu builder on its own: one toMenu call, as getProfile makes it    *)
(* for a sheet of the operation sheet                                      *)
(***************************************************************************)
S_x == <<120>>
S_y == <<121>>
S_z == <<122>>
S_q == <<113>>
S_w == <<119>>
S_t == <<116>>

\* a descriptor with the fields that are given (undefined: field absent)
Descriptor(k, order, parent, app) ==
    JObj(SelectSeq(<<[k |-> S_key, v |-> k], [k |-> S_order, v |-> order],
                     [k |-> S_parent, v |-> parent], [k |-> S_app, v |-> app]>>,
                   LAMBDA e : e.v # JUndef))

\* x, y and z under p (x and z with the same order; x also in a variant not
\* shown in the app), p itself, w under q which no descriptor defines, and
\* t at the top level
Descriptors ==
    {Descriptor(JStr(S_x), JNum(2), JStr(S_p), JBool(TRUE)),
     Descriptor(JStr(S_x), JNum(1), JStr(S_p), JUndef),
     Descriptor(JStr(S_y), JNum(1), JStr(S_p), JUndef),
     Descriptor(JStr(S_z), JNum(2), JStr(S_p), JBool(TRUE)),
     Descriptor(JStr(S_p), JUndef, JUndef, JBool(TRUE)),
     Descriptor(JStr(S_w), JNum(1), JStr(S_q), JBool(TRUE)),
     Descriptor(JStr(S_t), JNum(1), JUndef, JUndef)}

\* most descriptors in a sheet
MaxDescriptors == 3

\* sheets listing up to MaxDescriptors different descriptors, a sheet
\* without operations, and no sheet
Sheets ==
    {JObj(<<[k |-> S_operations, v |-> JArr(ops)]>>) :
        ops \in UNION {{o \in [1..n -> Descriptors] :
                           \A i, j \in 1..n : i # j => o[i] # o[j]} :
                       n \in 0..MaxDescriptors}}
    \cup {JObj(<<>>), JNull}

\* uniqueOperations: what the resolver gave for the user
AllowedLists ==
    {<<JStr(S_x), JStr(S_y), JStr(S_z), JStr(S_p), JStr(S_w), JStr(S_t)>>,
     <<JStr(S_x), JStr(S_y), JStr(S_w)>>,
     <<JStr(S_z), JStr(S_p), JStr(S_t)>>,
     <<>>}

MenuInit ==
    /\ now = StartTime
    /\ CodecIdle
    /\ ServerIdle
    /\ PermissionsIdle
    /\ OidcIdle

\* getProfile runs toMenu(sheet, user.app || false, uniqueOperations)
BuildMenu ==
    /\ menu = NoMenu
    /\ \E sheet \in Sheets, isApp \in {JBool(TRUE), JBool(FALSE)},
          userOperations \in AllowedLists :
          menu' = [sheet |-> sheet, isApp |-> isApp, userOperations |-> userOperations,
                   called |-> TRUE, menu |-> toMenu(sheet, isApp, userOperations)]
    /\ UNCHANGED <<now, authz, listing>>
    /\ UNCHANGED svars
    /\ UNCHANGED cvars
    /\ UNCHANGED ovars

MenuNext == BuildMenu

MenuSpec == MenuInit /\ [][MenuNext]_vars

(***************************************************************************)
(* Properties of the menu builder, checked under MenuSpec                  *)
(***************************************************************************)
\* the descriptors of the sheet toMenu was given
SheetOperations ==
    IF Truthy(menu.sheet) /\ Truthy(GetProp(menu.sheet, S_operations))
    THEN GetProp(menu.sheet, S_operations).a ELSE <<>>

\* the nodes of the returned map and the children list of a node
TopNodes == {menu.menu.m[i].v : i \in 1..Len(menu.menu.m)}
ChildrenOf(node) == GetProp(node, S_children).a
ItemsOf(list) == {list[i] : i \in 1..Len(list)}

\* items built from a descriptor carry a parent field, placeholders do not
FromDescriptor(node) == IndexOfKey(node.m, S_parent, 1) # 0

\* every menu item built from a descriptor, at top level or in a children
\* list
DescriptorItems ==
    {n \in TopNodes : FromDescriptor(n)}
    \cup UNION {ItemsOf(ChildrenOf(n)) : n \in TopNodes}

\* item carries the key, order and parent of descriptor d
BuiltFrom(item, d) ==
    /\ GetProp(item, S_key) = GetProp(d, S_key)
    /\ GetProp(item, S_order) = OrElse(GetProp(d, S_order), JNum(0))
    /\ GetProp(item, S_parent) = OrElse(GetProp(d, S_parent), JNull)

\* d passes both tests of the builder
Eligible(d) ==
    /\ \E i \in 1..Len(menu.userOperations) : menu.userOperations[i] = GetProp(d, S_key)
    /\ Truthy(menu.isApp) => Truthy(GetProp(d, S_app))

\* C15 (menu filtering): every menu item built from a descriptor, at top
\* level or in a children list, has a key in allowedOperations and comes
\* from a descriptor of the sheet that passes both tests, the app-visible
\* test included when isAppContext is true; a descriptor failing either
\* test contributes no item.
C15_OnlyEligibleDescriptors ==
    menu.called =>
        \A item \in DescriptorItems :
            /\ \E i \in 1..Len(menu.userOperations) :
                  menu.userOperations[i] = GetProp(item, S_key)
            /\ \E i \in 1..Len(SheetOperations) :
                  BuiltFrom(item, SheetOperations[i]) /\ Eligible(SheetOperations[i])

\* C15 case: in the app, a sheet with an allowed descriptor that is not
\* app-visible and a descriptor that is not allowed gave a menu with items
C15_Witness ==
    /\ menu.called
    /\ Truthy(menu.isApp)
    /\ \E i \in 1..Len(SheetOperations) :
          /\ ~Truthy(GetProp(SheetOperations[i], S_app))
          /\ Includes(menu.userOperations, GetProp(SheetOperations[i], S_key))
    /\ \E i \in 1..Len(SheetOperations) :
          ~Includes(menu.userOperations, GetProp(SheetOperations[i], S_key))
    /\ DescriptorItems # {}

\* where the descriptor of an item stands in the sheet
Position(item) ==
    CHOOSE i \in 1..Len(SheetOperations) : BuiltFrom(item, SheetOperations[i])

\* ascending by order, items of equal order in the order of the sheet
SortedStable(list) ==
    \A i, j \in 1..Len(list) :
        i < j =>
            \/ GetProp(list[i], S_order).n < GetProp(list[j], S_order).n
            \/ /\ GetProp(list[i], S_order).n = GetProp(list[j], S_order).n
               /\ Position(list[i]) < Position(list[j])

\* C16 (menu ordering): the children list of every node of the returned
\* tree, at every depth, is sorted ascending by order, children of equal
\* order staying in their input order.
C16_ChildrenSorted ==
    menu.called =>
        \A n \in TopNodes :
            /\ SortedStable(ChildrenOf(n))
            /\ \A c \in ItemsOf(ChildrenOf(n)) : SortedStable(ChildrenOf(c))

\* C16 case: x (order 2), z (order 2) and y (order 1), listed in that order
\* under p, come out as [y, x, z]
C16_Witness ==
    /\ menu.called
    /\ Len(SheetOperations) = 3
    /\ \E n \in TopNodes :
          /\ GetProp(n, S_key) = JStr(S_p)
          /\ [i \in 1..Len(ChildrenOf(n)) |-> GetProp(ChildrenOf(n)[i], S_key)]
                = <<JStr(S_y), JStr(S_x), JStr(S_z)>>
          /\ Position(ChildrenOf(n)[2]) = 1
          /\ Position(ChildrenOf(n)[3]) = 2
          /\ Position(ChildrenOf(n)[1]) = 3

\* descriptor d contributes an item and names a parent that no descriptor
\* of the sheet defines as a top-level operation
Orphaned(d) ==
    /\ Eligible(d)
    /\ Truthy(GetProp(d, S_parent))
    /\ ~\E j \in 1..Len(SheetOperations) :
          /\ GetProp(SheetOperations[j], S_key) = GetProp(d, S_parent)
          /\ ~Truthy(GetProp(SheetOperations[j], S_parent))

\* C17 (orphaned parents): when an allowed descriptor declares a parent key
\* that no descriptor of the sheet defines as a top-level operation, the
\* returned top-level map has no node under that key (neither the
\* placeholder nor the subtree below it).
C17_OrphansDropped ==
    menu.called =>
        \A i \in 1..Len(SheetOperations) :
            Orphaned(SheetOperations[i]) =>
                IndexOfKey(menu.menu.m, ToStr(GetProp(SheetOperations[i], S_parent)), 1) = 0

(***************************************************************************)
(* Session store (utils/redis.js): the other operations, and what each     *)
(* call sends to the cache server                                          *)
(***************************************************************************)
\* Redis.exists(key): result === 1
RedisExists(st, k) == JBool(k \in DOMAIN st)

\* Redis.expire(key, seconds) at time t: the entry expires seconds from t;
\* result === 1 when the key exists
RedisExpire(st, k, seconds, t) ==
    IF k \in DOMAIN st
    THEN [store |-> Put(st, k, [value |-> st[k].value, expireAt |-> t + seconds]),
          v |-> JBool(TRUE)]
    ELSE [store |-> st, v |-> JBool(FALSE)]

\* Redis.keys(pattern) for a pattern made of a prefix and a final '*': the
\* keys that start with the prefix
RedisKeys(st, pattern) ==
    {k \in DOMAIN st : IsPrefixAt(k, SubSeq(pattern, 1, Len(pattern) - 1), 1)}

\* Redis.ttl(key) at time t: -2 without entry, -1 without expiry, else the
\* seconds left
RedisTtl(st, k, t) ==
    IF k \notin DOMAIN st THEN JNum(0 - 2)
    ELSE IF st[k].expireAt = 0 THEN JNum(0 - 1)
    ELSE JNum(st[k].expireAt - t)

\* what the client sends and what comes back, for a call that got the
\* client from getClient(); k is the key, or the pattern of keys(pattern),
\* whose answer is given by the number of keys in it
Command(op, st, k, value, ttl, t) ==
    CASE op = "set" ->
            [cmd |-> IF Truthy(ttl) THEN "SETEX" ELSE "SET",
             thrown |-> RedisSet(st, k, value, ttl, t).thrown,
             store |-> RedisSet(st, k, value, ttl, t).store, v |-> JUndef]
      [] op = "get" ->
            [cmd |-> "GET", thrown |-> FALSE, store |-> st, v |-> RedisGet(st, k).v]
      [] op = "del" ->
            [cmd |-> "DEL", thrown |-> FALSE, store |-> RedisDel(st, k).store,
             v |-> RedisDel(st, k).v]
      [] op = "exists" ->
            [cmd |-> "EXISTS", thrown |-> FALSE, store |-> st, v |-> RedisExists(st, k)]
      [] op = "expire" ->
            [cmd |-> "EXPIRE", thrown |-> FALSE,
             store |-> RedisExpire(st, k, ttl.n, t).store,
             v |-> RedisExpire(st, k, ttl.n, t).v]
      [] op = "keys" ->
            [cmd |-> "KEYS", thrown |-> FALSE, store |-> st,
             v |-> JNum(Cardinality(RedisKeys(st, k)))]
      [] op = "ttl" ->
            [cmd |-> "TTL", thrown |-> FALSE, store |-> st, v |-> RedisTtl(st, k, t)]

\* Redis.set / get / del / exists / expire / keys / ttl: getClient() raises
\* 'Redis未连接' before anything is sent, and the catch raises it again
RedisCall(op, st, k, value, ttl, t) ==
    IF ~ClientUsable
    THEN [cmd |-> "none", thrown |-> TRUE, store |-> st, v |-> JUndef]
    ELSE Command(op, st, k, value, ttl, t)

\* exports.getOnlineUsers: Math.floor(Math.random() * 100) + 1
OnlineCounts == 1..100

getOnlineUsers(onlineCount, st) == Sent(200, JNum(onlineCount), st)

(***************************************************************************)
(* The session cache over time: Redis.init(), the connection going up and  *)
(* down, store calls as test-auth.js makes them, requests, the clock       *)
(***************************************************************************)
S_testKey     == <<116, 101, 115, 116, 45, 107, 101, 121>>
S_testValue   == <<116, 101, 115, 116, 45, 118, 97, 108, 117, 101>>
S_userPattern == S_user \o <<42>>

\* Redis.set('test-key', 'test-value', 60)
TestTTL == 60

\* the token cached for subject u, issued at the start with the default
\* validity
SessionToken == issueToken(JStr(S_a), JStr(S_u), JStr(S_p), JUndef, StartTime, Jti(1)).s

\* the keys test-auth.js writes, with the value and the expiry it gives each
StoreKeys == {SessionKey(JStr(S_u)), S_testKey}
ValueFor(k) == IF k = S_testKey THEN S_testValue ELSE SessionToken
TtlFor(k) == IF k = S_testKey THEN JNum(TestTTL) ELSE JNum(SessionTTL)

StoreOps == {"set", "get", "del", "exists", "expire", "keys", "ttl"}

\* app.js has not yet run Redis.init()
SessionInit ==
    /\ now = StartTime
    /\ client = 0
    /\ connected = FALSE
    /\ store = <<>>
    /\ pool = {SessionToken}
    /\ replaced = <<>>
    /\ resp = NoResp
    /\ CodecIdle
    /\ PermissionsIdle
    /\ OidcIdle

\* Redis.init(): the client is created; 'ready' follows as ClientReady
RedisInit ==
    /\ resp = NoResp
    /\ client = 0
    /\ client' = 1
    /\ UNCHANGED <<now, connected, store, pool, replaced, resp>>
    /\ UNCHANGED cvars
    /\ UNCHANGED pvars
    /\ UNCHANGED ovars

\* a caller runs one operation of the Session Store
StoreCall ==
    /\ resp = NoResp
    /\ \E op \in StoreOps, name \in StoreKeys :
          LET k == IF op = "keys" THEN S_userPattern ELSE name
              r == RedisCall(op, store, k, ValueFor(name), TtlFor(name), now)
          IN  /\ store' = r.store
              /\ resp' = [NoResp EXCEPT
                            !.route = "store", !.why = op,
                            !.data = [t |-> "call", key |-> k, cmd |-> r.cmd,
                                      thrown |-> r.thrown, v |-> r.v,
                                      before |-> store]]
    /\ UNCHANGED <<now, client, connected, pool, replaced>>
    /\ UNCHANGED cvars
    /\ UNCHANGED pvars
    /\ UNCHANGED ovars

\* GET /auth/online
Online ==
    /\ resp = NoResp
    /\ \E onlineCount \in OnlineCounts :
          resp' = Public("online", getOnlineUsers(onlineCount, store))
    /\ UNCHANGED <<now, client, connected, store, pool, replaced>>
    /\ UNCHANGED cvars
    /\ UNCHANGED pvars
    /\ UNCHANGED ovars

\* a second passes; the cache server drops the entries whose time is over
SessionTick ==
    /\ resp = NoResp
    /\ now < StartTime + MaxTick
    /\ now' = now + 1
    /\ store' = [k \in {x \in DOMAIN store :
                          store[x].expireAt = 0 \/ store[x].expireAt > now + 1}
                    |-> store[k]]
    /\ UNCHANGED <<client, connected, pool, replaced, resp>>
    /\ UNCHANGED cvars
    /\ UNCHANGED pvars
    /\ UNCHANGED ovars

SessionNext ==
    \/ RedisInit
    \/ ClientReady
    \/ ClientDown
    \/ StoreCall
    \/ Authenticated
    \/ Online
    \/ Deliver
    \/ SessionTick

SessionSpec == SessionInit /\ [][SessionNext]_vars

(***************************************************************************)
(* Properties of the session cache, checked under SessionSpec              *)
(***************************************************************************)
\* C18 (refresh renews the session): after an authenticated POST
\* /auth/refresh has succeeded for subject S, the entry 'user-'+S has 600
\* seconds left and still holds the token it held.
C18_RefreshRenews ==
    (resp.route = "refresh" /\ resp.next /\ resp.status = 200) =>
        /\ SessionKey(GetProp(resp.user, S_id)) \in DOMAIN store
        /\ RedisTtl(store, SessionKey(GetProp(resp.user, S_id)), now) = JNum(SessionTTL)
        /\ store[SessionKey(GetProp(resp.user, S_id))].value = resp.token.s

\* C19 (online count): GET /auth/online returns the number of entries
\* stored under the keys matching 'user-*'.
C19_OnlineCountsSessions ==
    resp.route = "online" =>
        /\ resp.status = 200
        /\ resp.data = JNum(Cardinality(RedisKeys(store, S_userPattern)))

PassesVerify(token) ==
    /\ Truthy(token)
    /\ ~verifyToken(token.s, now).thrown
    /\ Truthy(verifyToken(token.s, now).v)

\* C21 (upstream failure is not an authentication failure): a request whose
\* credential passes verifyToken while the cache cannot be reached (the
\* read Redis.get raises the connectivity error) is answered with an
\* upstream-unavailable error, not with the 401 of a failed authentication.
C21_UpstreamFailureDistinct ==
    (GatedRequest /\ PassesVerify(resp.token) /\ ~ClientUsable) =>
        resp.status # 401

(***************************************************************************)
(* Further properties of the logins, checked under Spec                    *)
(***************************************************************************)
\* the request being answered is a login (OIDC exchange or admin login)
LoginAnswered == resp.route \in {"authenticate", "supervisor"}

\* C22 (a login that does not complete leaves the cache untouched): every
\* run of exports.exchange or exports.supervisorLogin that ends otherwise
\* than with a success answer (missing code or credentials, token request
\* failure, no ID token, backend error, bad credentials, an exception handed
\* to next) leaves the entries of the session cache and their values as
\* they were before the attempt.
C22_FailedLoginLeavesCache ==
    [][(resp = NoResp /\ resp'.route \in {"authenticate", "supervisor"}
            /\ resp'.status # 200)
        => store' = store]_vars

\* C22 case: an exchange that got an ID token from the provider failed at
\* the auth backend (500) while the cache held a session
C22_Witness ==
    /\ resp.route = "authenticate"
    /\ resp.status = 500
    /\ store # <<>>

(***************************************************************************)
(* OIDC client (libs/openIDClient.js). An axios call either rejects (no    *)
(* answer in 30 s, network error, a status outside 2xx) or resolves with   *)
(* a status and the body the provider sent.                                *)
(***************************************************************************)
S_access_token  == <<97, 99, 99, 101, 115, 115, 95, 116, 111, 107, 101, 110>>
S_refresh_token == <<114, 101, 102, 114, 101, 115, 104, 95, 116, 111, 107, 101, 110>>
S_token_type    == <<116, 111, 107, 101, 110, 95, 116, 121, 112, 101>>
S_expires_in    == <<101, 120, 112, 105, 114, 101, 115, 95, 105, 110>>
S_BearerType    == <<66, 101, 97, 114, 101, 114>>
S_redirect      == <<47, 110, 112, 115>>

\* constructor: the fields the token calls read and write
OpenIDClient ==
    [redirectUrl |-> JNull, idToken |-> JNull, accessToken |-> JNull,
     refreshToken |-> JNull, tokenType |-> JNull, expiresIn |-> JNull]

setRedirectURL(o, url) == [o EXCEPT !.redirectUrl = url]

Rejected == [rejected |-> TRUE, status |-> 0, data |-> JUndef]
Resolved(status, data) == [rejected |-> FALSE, status |-> status, data |-> data]

\* a method's outcome: whether it raised, the object it leaves, its value
Raised(o) == [thrown |-> TRUE, o |-> o, v |-> JUndef]
Done(o, v) == [thrown |-> FALSE, o |-> o, v |-> v]

\* requestTokens lines 100-103: whether the request to `${issuerUrl}/token`
\* is sent at all
SendsTokenRequest(o) == Truthy(o.redirectUrl)

\* lines 136-140: the five fields taken from tokenData
Stored(o, tokenData) ==
    [o EXCEPT
       !.accessToken = GetProp(tokenData, S_access_token),
       !.idToken = GetProp(tokenData, S_id_token),
       !.refreshToken = GetProp(tokenData, S_refresh_token),
       !.tokenType = OrElse(GetProp(tokenData, S_token_type), JStr(S_BearerType)),
       !.expiresIn = GetProp(tokenData, S_expires_in)]

\* a variant of requestTokens that stores the body of the response before
\* it looks at the status
requestTokensStoresFirst(o, response) ==
    IF ~SendsTokenRequest(o) THEN Raised(o)
    ELSE IF response.rejected THEN Raised(o)
    ELSE IF PropThrows(response.data) THEN Raised(o)
    ELSE IF response.status # 200 THEN Raised(Stored(o, response.data))
    ELSE Done(Stored(o, response.data), response.data)

\* requestTokens from the answer to axios.post on: lines 128-148, the catch
\* at 150-156 raising again what was raised
requestTokens(o, response) ==
    IF ~SendsTokenRequest(o) THEN Raised(o)
    ELSE IF response.rejected THEN Raised(o)
    ELSE IF response.status # 200 THEN Raised(o)
    ELSE IF PropThrows(response.data) THEN Raised(o)
    ELSE Done(Stored(o, response.data), response.data)

getIdToken(o) == o.idToken

\* refreshAccessToken lines 256-258: whether the refresh request is sent
SendsRefreshRequest(o) == Truthy(o.refreshToken)

\* lines 283-291: the fields after a refresh answered with tokenData
Refreshed(o, tokenData) ==
    [o EXCEPT
       !.accessToken = GetProp(tokenData, S_access_token),
       !.idToken = IF Truthy(GetProp(tokenData, S_id_token))
                   THEN GetProp(tokenData, S_id_token) ELSE @,
       !.refreshToken = IF Truthy(GetProp(tokenData, S_refresh_token))
                        THEN GetProp(tokenData, S_refresh_token) ELSE @,
       !.tokenType = OrElse(GetProp(tokenData, S_token_type), JStr(S_BearerType)),
       !.expiresIn = GetProp(tokenData, S_expires_in)]

\* refreshAccessToken for the answer to axios.post
refreshAccessToken(o, response) ==
    IF ~SendsRefreshRequest(o) THEN Raised(o)
    ELSE IF response.rejected THEN Raised(o)
    ELSE IF response.status # 200 THEN Raised(o)
    ELSE IF PropThrows(response.data) THEN Raised(o)
    ELSE Done(Refreshed(o, response.data), response.data)

\* a variant of the catch at lines 342-347 that raises the error again, as
\* the catches of the other methods do
RevokeRaises(o) == Raised(o)

\* revokeToken lines 342-347: the catch logs and returns false
RevokeFailed(o) == Done(o, JFalse)

\* revokeToken(token = null) for the answer to axios.post: without a token
\* to revoke the error is raised inside the try and no request is sent
revokeToken(o, token, response) ==
    IF ~Truthy(OrElse(token, o.accessToken)) THEN RevokeFailed(o)
    ELSE IF response.rejected THEN RevokeFailed(o)
    ELSE Done(o, JBool(TRUE))

(***************************************************************************)
(* The OIDC exchange step by step (controllers/authController.js,          *)
(* exports.exchange): requests are served concurrently, and a request      *)
(* gives way to the others at each await                                   *)
(***************************************************************************)
\* requests followed at the same time
MaxRuns == 2

S_c == <<99>>
S_d == <<100>>

\* req.body.code: an authorization code, the empty string, or none
Codes == {JStr(S_c), JStr(S_d), JStr(<<>>), JUndef}

\* the ID token and the system token are named after what they were made
\* from, so that one sent or returned for another login is told apart
IdTokenFor(code) == JStr(<<105>> \o ToStr(code))
SystemTokenFor(idToken) == JStr(<<115>> \o ToStr(idToken))

\* what the provider can answer to the token request for a code: nothing
\* usable (rejected), a 2xx status other than 200, a body that is null, a
\* body without ID token, the tokens for the code
TokenResponses(code) ==
    {Rejected,
     Resolved(201, JObj(<<[k |-> S_id_token, v |-> IdTokenFor(code)]>>)),
     Resolved(200, JNull),
     Resolved(200, JObj(<<>>)),
     Resolved(200, JObj(<<[k |-> S_access_token, v |-> JStr(<<97>> \o ToStr(code))],
                          [k |-> S_id_token, v |-> IdTokenFor(code)]>>))}

\* what Curl.api('auth.authenticate').request({idToken}) can yield: an
\* error, nothing, a result without system token, the system token
BackendOutcomes(idToken) ==
    {[result |-> JNull, error |-> JStr(<<101>>)],
     [result |-> JNull, error |-> JNull],
     [result |-> JObj(<<>>), error |-> JNull],
     [result |-> JObj(<<[k |-> S_pach_token, v |-> SystemTokenFor(idToken)]>>),
      error |-> JNull]}

\* a request that has not arrived yet
NoRun == [pc |-> "idle", code |-> JUndef, oidc |-> 0, raised |-> FALSE,
          response |-> JUndef, sent |-> JUndef, outcome |-> JUndef,
          status |-> 0, data |-> JUndef, steps |-> <<>>]

\* new OpenIDClient(issuerUrl, 'enterprise-tmsc', '123456') at lines 88-92:
\* a variant that keeps one client object for the whole module
ConstructOnce(h) ==
    IF h = <<>> THEN [heap |-> <<OpenIDClient>>, ref |-> 1]
    ELSE [heap |-> [h EXCEPT ![1] = OpenIDClient], ref |-> 1]

\* new OpenIDClient(issuerUrl, 'enterprise-tmsc', '123456') at lines 88-92:
\* a fresh object, held in the handler's local constant oidc
Construct(h) == [heap |-> Append(h, OpenIDClient), ref |-> Len(h) + 1]

\* res.status(...).json(...) or next(error): the run is over
Answer(run, status, data, step) ==
    [run EXCEPT !.pc = "done", !.status = status, !.data = data,
                !.steps = Append(@, step)]

\* line 66: if (!code)
CodeMissing(code) == ~Truthy(code)

\* a variant of line 102 that goes on without ID token
IdTokenNeverMissing(idToken) == FALSE

\* line 102: if (!idToken)
IdTokenMissing(idToken) == ~Truthy(idToken)

\* lines 103-111: code.substring(0, 10) in the log call raises for a code
\* that is not a string; otherwise 400
NoIdToken(run) ==
    IF run.code.t = "str" THEN Answer(run, 400, JUndef, "failed")
    ELSE Answer(run, 500, JUndef, "failed")

\* lines 126-151 for the [result, error] pair: 500 for an error, the
\* exception of result.pach_token on no result goes to next(error), else
\* the system token
BackendAnswer(run, o) ==
    IF Truthy(o.error) THEN Answer([run EXCEPT !.outcome = o], 500, JUndef, "failed")
    ELSE IF PropThrows(o.result)
    THEN Answer([run EXCEPT !.outcome = o], 500, JUndef, "failed")
    ELSE Answer([run EXCEPT !.outcome = o], 200, GetProp(o.result, S_pach_token),
                "token")

ExchangeInit ==
    /\ now = StartTime
    /\ ServerIdle
    /\ CodecIdle
    /\ PermissionsIdle
    /\ heap = <<>>
    /\ runs = [p \in 1..MaxRuns |-> NoRun]
    /\ call = NoCall

\* lines 56-98: the request arrives; without code it is answered 400, else
\* the client object is made, the redirect URL set and oidc.requestTokens
\* runs up to its axios.post
ExchangeStart(p) ==
    /\ runs[p].pc = "idle"
    /\ \E code \in Codes :
          IF CodeMissing(code)
          THEN /\ runs' = [runs EXCEPT ![p] = Answer([@ EXCEPT !.code = code],
                                                     400, JUndef, "failed")]
               /\ UNCHANGED heap
          ELSE LET c == Construct(heap)
                   o == setRedirectURL(c.heap[c.ref], JStr(S_redirect))
               IN  /\ heap' = [c.heap EXCEPT ![c.ref] = o]
                   /\ runs' = [runs EXCEPT ![p] =
                                  [@ EXCEPT !.code = code, !.oidc = c.ref,
                                            !.raised = ~SendsTokenRequest(o),
                                            !.pc = IF SendsTokenRequest(o)
                                                   THEN "tokens" ELSE "resumed",
                                            !.steps = IF SendsTokenRequest(o)
                                                      THEN <<"code", "request">>
                                                      ELSE <<"code">>]]
    /\ UNCHANGED <<now, call>>
    /\ UNCHANGED svars
    /\ UNCHANGED cvars
    /\ UNCHANGED pvars

\* the answer to axios.post arrives and requestTokens runs to its end
\* (lines 128-156), on the object this run holds
ProviderAnswers(p) ==
    /\ runs[p].pc = "tokens"
    /\ \E response \in TokenResponses(runs[p].code) :
          LET r == requestTokens(heap[runs[p].oidc], response)
          IN  /\ heap' = [heap EXCEPT ![runs[p].oidc] = r.o]
              /\ runs' = [runs EXCEPT ![p] =
                             [@ EXCEPT !.pc = "resumed", !.raised = r.thrown,
                                       !.response = response]]
    /\ UNCHANGED <<now, call>>
    /\ UNCHANGED svars
    /\ UNCHANGED cvars
    /\ UNCHANGED pvars

\* the handler goes on after `await oidc.requestTokens(code)`: an exception
\* goes to next(error); lines 100-124 read the ID token from the object and
\* send it to the auth backend
ExchangeResumes(p) ==
    /\ runs[p].pc = "resumed"
    /\ LET idToken == getIdToken(heap[runs[p].oidc])
       IN  runs' = [runs EXCEPT ![p] =
                       IF @.raised THEN Answer(@, 500, JUndef, "failed")
                       ELSE IF IdTokenMissing(idToken) THEN NoIdToken(@)
                       ELSE [@ EXCEPT !.pc = "backend", !.sent = idToken,
                                      !.steps = @ \o <<"idtoken", "backend">>]]
    /\ UNCHANGED <<now, heap, call>>
    /\ UNCHANGED svars
    /\ UNCHANGED cvars
    /\ UNCHANGED pvars

\* the auth backend's answer arrives: lines 126-151
BackendAnswers(p) ==
    /\ runs[p].pc = "backend"
    /\ \E o \in BackendOutcomes(runs[p].sent) :
          runs' = [runs EXCEPT ![p] = BackendAnswer(@, o)]
    /\ UNCHANGED <<now, heap, call>>
    /\ UNCHANGED svars
    /\ UNCHANGED cvars
    /\ UNCHANGED pvars

ExchangeNext ==
    \E p \in 1..MaxRuns :
        \/ ExchangeStart(p)
        \/ ProviderAnswers(p)
        \/ ExchangeResumes(p)
        \/ BackendAnswers(p)

ExchangeSpec == ExchangeInit /\ [][ExchangeNext]_vars

(***************************************************************************)
(* Properties of the exchange, checked under ExchangeSpec                  *)
(***************************************************************************)
\* the ID token the provider returned to run p for its code
ProvidedIdToken(p) == GetProp(runs[p].response.data, S_id_token)

\* run p has sent an ID token to the auth backend
HasSent(p) == runs[p].sent # JUndef

\* C23 (concurrent exchanges are isolated): however the steps of two
\* exchanges interleave, each run holds a client object of its own, and the
\* ID token a run sends to the auth backend is the one the provider
\* returned to that run for its own code.
C23_ExchangesIsolated ==
    \A p \in 1..MaxRuns :
        /\ HasSent(p) =>
              /\ ~runs[p].response.rejected
              /\ runs[p].sent = ProvidedIdToken(p)
              /\ runs[p].sent = IdTokenFor(runs[p].code)
        /\ \A q \in 1..MaxRuns :
              (q # p /\ runs[p].oidc # 0 /\ runs[q].oidc # 0) =>
                  runs[p].oidc # runs[q].oidc

\* C23 case: two exchanges for different codes were in progress together;
\* the one that started later has sent its ID token while the other, whose
\* tokens have arrived too, has sent its own
C23_Witness ==
    /\ runs[1].code # runs[2].code
    /\ runs[2].oidc = 1
    /\ runs[1].oidc = 2
    /\ HasSent(1)
    /\ HasSent(2)
    /\ runs[1].sent # runs[2].sent
    /\ heap[1].idToken = runs[2].sent
    /\ heap[2].idToken = runs[1].sent

(***************************************************************************)
(* The request gate on its own (middleware/auth.js): tokenCheck and        *)
(* optionalAuth on requests that carry the credential in any of the three  *)
(* places, while a session is cached                                       *)
(***************************************************************************)
\* a variant of optionalAuth that hands on every request the gate refuses
optionalAuthLenient(req) ==
    IF tokenCheck(req).next THEN tokenCheck(req)
    ELSE [status |-> 0, next |-> TRUE, why |-> "skipped", decoded |-> JUndef,
          user |-> JUndef]

\* optionalAuth(req, res, next), lines 287-299: with a token the outcome is
\* what tokenCheck(req, res, next) does; without one next() is called
optionalAuth(req) ==
    IF Truthy(ExtractToken(req)) THEN tokenCheck(req)
    ELSE [status |-> 0, next |-> TRUE, why |-> "skipped", decoded |-> JUndef,
          user |-> JUndef]

\* header and query values: the cached token, a string that is no token,
\* the empty string, nothing
PlainValues == {JStr(SessionToken), JStr(<<120>>), JStr(<<>>), JUndef}

\* Authorization header values: the documented `Bearer <token>`, the bare
\* token, the prefix alone, the text 'Bearer ' inside the token, nothing
AuthorizationValues ==
    {JStr(S_Bearer \o SessionToken),
     JStr(SessionToken),
     JStr(S_Bearer),
     JStr(SubSeq(SessionToken, 1, 2) \o S_Bearer
              \o SubSeq(SessionToken, 3, Len(SessionToken))),
     JUndef}

HeaderRequests ==
    {Request(x, a, q) : x \in PlainValues, a \in AuthorizationValues,
                        q \in PlainValues \ {JStr(<<>>)}}

\* the server is up and holds the session of subject u
GateInit ==
    /\ now = StartTime
    /\ client = 1
    /\ connected = TRUE
    /\ store = Put(<<>>, SessionKey(JStr(S_u)),
                   [value |-> SessionToken, expireAt |-> StartTime + SessionTTL])
    /\ pool = {SessionToken}
    /\ replaced = <<>>
    /\ resp = NoResp
    /\ CodecIdle
    /\ PermissionsIdle
    /\ OidcIdle

\* the record of a request that went through a gate; the request is kept
\* with it
Checked(route, req, gate) ==
    [Gated(route, req, gate, Sent(200, JUndef, store))
        EXCEPT !.data = [t |-> "request", req |-> req]]

\* a request to a route behind AuthMiddleware.tokenCheck
TokenCheck ==
    /\ resp = NoResp
    /\ \E req \in HeaderRequests : resp' = Checked("tokenCheck", req, tokenCheck(req))
    /\ UNCHANGED <<now, client, connected, store, pool, replaced>>
    /\ UNCHANGED cvars
    /\ UNCHANGED pvars
    /\ UNCHANGED ovars

\* a request to a route behind AuthMiddleware.optionalAuth
OptionalAuth ==
    /\ resp = NoResp
    /\ \E req \in HeaderRequests : resp' = Checked("optionalAuth", req, optionalAuth(req))
    /\ UNCHANGED <<now, client, connected, store, pool, replaced>>
    /\ UNCHANGED cvars
    /\ UNCHANGED pvars
    /\ UNCHANGED ovars

GateNext ==
    \/ TokenCheck
    \/ OptionalAuth
    \/ Deliver
    \/ ClientDown
    \/ ClientReady

GateSpec == GateInit /\ [][GateNext]_vars

(***************************************************************************)
(* Properties of the gate, checked under GateSpec                          *)
(***************************************************************************)
\* a header or parameter is present: it has a value and the value is not
\* empty
Present(v) == v.t = "str" /\ v.s # <<>>

\* an Authorization value with the 'Bearer ' prefix removed
WithoutBearerPrefix(a) ==
    IF IsPrefixAt(a.s, S_Bearer, 1)
    THEN JStr(SubSeq(a.s, Len(S_Bearer) + 1, Len(a.s)))
    ELSE a

\* the credential of a request by the stated priority
CredentialByPriority(req) ==
    IF Present(req.xSessionToken) THEN req.xSessionToken
    ELSE IF Present(req.authorization) THEN WithoutBearerPrefix(req.authorization)
    ELSE req.queryToken

\* the request carries a credential in none of the three places
NoCredential(req) ==
    ~Present(req.xSessionToken) /\ ~Present(req.authorization)
        /\ ~Present(req.queryToken)

\* C24 (credential extraction priority): tokenCheck takes the credential
\* from x-session-token if present, otherwise from the Authorization header
\* with the 'Bearer ' prefix removed, otherwise from the token query
\* parameter; when none is present it answers 401 before verifyToken and
\* the cache are called.
C24_ExtractionPriority ==
    resp.route = "tokenCheck" =>
        /\ ~NoCredential(resp.data.req) =>
              resp.token = CredentialByPriority(resp.data.req)
        /\ NoCredential(resp.data.req) =>
              /\ resp.status = 401
              /\ ~resp.next
              /\ resp.why = "missing"

\* C25 (optionalAuth): a request without credential is handed on with no
\* identity attached and without the cache being read; a request with a
\* credential gets exactly what tokenCheck does with the same request, so
\* that an invalid credential is answered 401 and not handed on.
C25_OptionalAuth ==
    resp.route = "optionalAuth" =>
        LET gate == tokenCheck(resp.data.req)
        IN  IF gate.why = "missing"
            THEN /\ resp.next
                 /\ resp.user = JUndef
                 /\ resp.why = "skipped"
                 /\ resp.status # 401
            ELSE /\ resp.next = gate.next
                 /\ resp.status = IF gate.next THEN 200 ELSE gate.status
                 /\ resp.user = gate.user
                 /\ resp.why = gate.why
                 /\ (resp.why # "ok" => resp.status = 401 /\ ~resp.next)

\* C25 case: optionalAuth got a credential that verifyToken refuses and
\* answered 401
C25_Witness ==
    /\ resp.route = "optionalAuth"
    /\ resp.data.req.xSessionToken = JStr(<<120>>)
    /\ resp.why = "invalid"
    /\ resp.status = 401
    /\ ~resp.next

(***************************************************************************)
(* One OpenIDClient object and the calls made on it                        *)
(* (libs/openIDClient.js): requestTokens, refreshAccessToken, revokeToken  *)
(***************************************************************************)
\* the members a token response may carry, each with the value the
\* provider gives it in this generation
TokenMembers ==
    <<[k |-> S_access_token, v |-> JStr(<<97, 50>>)],
      [k |-> S_id_token, v |-> JStr(<<105, 50>>)],
      [k |-> S_refresh_token, v |-> JStr(<<114, 50>>)]>>

\* the members of m whose position is in keep, in order
RECURSIVE Members(_, _, _)
Members(m, keep, i) ==
    IF i > Len(m) THEN <<>>
    ELSE (IF i \in keep THEN <<m[i]>> ELSE <<>>) \o Members(m, keep, i + 1)

\* answers to a request to /token: none, a 2xx status other than 200, a
\* null body, and a body with any of the three token members
RefreshResponses ==
    {Rejected, Resolved(201, JObj(TokenMembers)), Resolved(200, JNull)}
    \cup {Resolved(200, JObj(Members(TokenMembers, keep, 1))) :
            keep \in SUBSET (1..Len(TokenMembers))}

\* answers to a request to /revoke: none (timeout, network error, a
\* status outside 2xx), 200, another 2xx status
RevokeResponses == {Rejected, Resolved(200, JObj(<<>>)), Resolved(204, JStr(<<>>))}

\* the object after a first requestTokens answered with all three tokens
FirstTokens ==
    JObj(<<[k |-> S_access_token, v |-> JStr(<<97, 49>>)],
           [k |-> S_id_token, v |-> JStr(<<105, 49>>)],
           [k |-> S_refresh_token, v |-> JStr(<<114, 49>>)]>>)

\* a first answer that names its token type and lifetime
FirstTokensTyped ==
    JObj(FirstTokens.m \o <<[k |-> S_token_type, v |-> JStr(<<109, 97, 99>>)],
                             [k |-> S_expires_in, v |-> JNum(3600)]>>)

\* answers to the token request for a code: none, a 2xx status other than
\* 200, a null body, a body without tokens, the tokens, the tokens with
\* type and lifetime
CodeResponses ==
    {Rejected, Resolved(201, FirstTokens), Resolved(200, JNull),
     Resolved(200, JObj(<<>>)), Resolved(200, FirstTokens),
     Resolved(200, FirstTokensTyped)}

\* a client as the constructor leaves it
ClientInit ==
    /\ now = StartTime
    /\ ServerIdle
    /\ CodecIdle
    /\ PermissionsIdle
    /\ heap = <<OpenIDClient>>
    /\ runs = <<>>
    /\ call = NoCall

\* oidc.setRedirectURL(webUrl + '/nps')
SetRedirectCall ==
    /\ heap' = <<setRedirectURL(heap[1], JStr(S_redirect))>>
    /\ call' = [NoCall EXCEPT !.method = "setRedirectURL", !.before = heap[1],
                              !.arg = JStr(S_redirect)]
    /\ UNCHANGED <<now, runs>>
    /\ UNCHANGED svars
    /\ UNCHANGED cvars
    /\ UNCHANGED pvars

\* the record of a method call on the object: what the object was, the
\* argument, the answer to its request, what the call did
Called(method, arg, response, r) ==
    [method |-> method, before |-> heap[1], arg |-> arg, response |-> response,
     thrown |-> r.thrown, v |-> r.v]

\* oidc.requestTokens(code)
RequestTokensCall ==
    /\ \E response \in CodeResponses :
          LET r == requestTokens(heap[1], response)
          IN  /\ heap' = <<r.o>>
              /\ call' = Called("requestTokens", JStr(S_c), response, r)
    /\ UNCHANGED <<now, runs>>
    /\ UNCHANGED svars
    /\ UNCHANGED cvars
    /\ UNCHANGED pvars

\* oidc.refreshAccessToken()
RefreshCall ==
    /\ \E response \in RefreshResponses :
          LET r == refreshAccessToken(heap[1], response)
          IN  /\ heap' = <<r.o>>
              /\ call' = Called("refreshAccessToken", JUndef, response, r)
    /\ UNCHANGED <<now, runs>>
    /\ UNCHANGED svars
    /\ UNCHANGED cvars
    /\ UNCHANGED pvars

\* oidc.revokeToken(token) and oidc.revokeToken()
RevokeCall ==
    /\ \E token \in {JNull, JStr(<<116>>)}, response \in RevokeResponses :
          LET r == revokeToken(heap[1], token, response)
          IN  /\ heap' = <<r.o>>
              /\ call' = Called("revokeToken", token, response, r)
    /\ UNCHANGED <<now, runs>>
    /\ UNCHANGED svars
    /\ UNCHANGED cvars
    /\ UNCHANGED pvars

ClientNext == SetRedirectCall \/ RequestTokensCall \/ RefreshCall \/ RevokeCall

ClientSpec == ClientInit /\ [][ClientNext]_vars

(***************************************************************************)
(* Properties of the client object, checked under ClientSpec               *)
(***************************************************************************)
\* the object v has a member named k
HasMember(v, k) == v.t = "obj" /\ \E i \in 1..Len(v.m) : v.m[i].k = k

\* the stored value is the response's when the response has the member, and
\* what it was before the call otherwise
KeptOrTaken(stored, before, data, k) ==
    stored = IF HasMember(data, k) THEN GetProp(data, k) ELSE before

\* C26 (refresh keeps what the response omits): after a successful
\* refreshAccessToken each of the stored access token, ID token and refresh
\* token equals the response's value when the response contains the field,
\* and its value before the call when the response omits it.
C26_RefreshKeepsOmitted ==
    (call.method = "refreshAccessToken" /\ ~call.thrown) =>
        /\ KeptOrTaken(heap[1].accessToken, call.before.accessToken,
                       call.response.data, S_access_token)
        /\ KeptOrTaken(heap[1].idToken, call.before.idToken,
                       call.response.data, S_id_token)
        /\ KeptOrTaken(heap[1].refreshToken, call.before.refreshToken,
                       call.response.data, S_refresh_token)

\* the call asked the provider and the provider accepted the request
RevokeSucceeded ==
    /\ Truthy(OrElse(call.arg, call.before.accessToken))
    /\ ~call.response.rejected

\* C27 (revoke is best-effort): whatever the answer of the provider's
\* /revoke endpoint (accepted, a status outside 2xx, timeout, network
\* error), and also without a token to revoke, revokeToken returns a
\* boolean, true exactly when the request succeeded, and raises nothing.
C27_RevokeBestEffort ==
    call.method = "revokeToken" =>
        /\ ~call.thrown
        /\ call.v = JBool(RevokeSucceeded)
        /\ heap[1] = call.before

\* C27 case: the request to /revoke was sent for the stored access token
\* and failed; revokeToken returned false
C27_Witness ==
    /\ call.method = "revokeToken"
    /\ call.arg = JNull
    /\ Truthy(call.before.accessToken)
    /\ call.response.rejected
    /\ call.v = JFalse
    /\ ~call.thrown

(***************************************************************************)
(* Token codec with two clocks (utils/jwt.js): the holder of the key that  *)
(* issues the token reads its own clock, which may be ahead of the clock   *)
(* of the server that verifies it                                          *)
(***************************************************************************)
\* the seconds the issuer's clock may be ahead of the verifier's start
MaxAhead == 2

SkewInit ==
    /\ now = StartTime
    /\ \E p \in Principals, pl \in FullPayloads, tm \in Validities :
          args = [iss |-> p.iss, sub |-> p.sub, payload |-> pl, time |-> tm]
    /\ jwt = JUndef
    /\ issuedAt = 0
    /\ presented = <<>>
    /\ verdict = NoVerdict
    /\ ServerIdle
    /\ PermissionsIdle
    /\ OidcIdle

\* Jwt.issueToken(iss, sub, payload, time) on a host whose clock reads t
SkewIssue ==
    /\ jwt = JUndef
    /\ \E t \in StartTime..(StartTime + MaxAhead) :
          /\ jwt' = issueToken(args.iss, args.sub, args.payload, args.time, t, Jti(1))
          /\ issuedAt' = t
    /\ UNCHANGED <<now, args, presented, verdict>>
    /\ UNCHANGED svars
    /\ UNCHANGED pvars
    /\ UNCHANGED ovars

SkewNext == SkewIssue \/ CodecVerify \/ CodecTick

SkewSpec == SkewInit /\ [][SkewNext]_vars

(***************************************************************************)
(* Properties of the codec with two clocks, checked under SkewSpec         *)
(***************************************************************************)
\* the iat claim of the string presented, read without any check
PresentedIat == GetProp(ClaimsOf(presented), S_iat)

\* C28 (no leeway for iat): verifyToken at time t returns false for every
\* correctly signed token whose iat is greater than t, by one second
\* already.
C28_FutureIatRefused ==
    (Verified /\ PresentedIat.t = "num" /\ PresentedIat.n > now) => Refused

\* C28 case: a token issued by a clock one second ahead, with a validity
\* that has not run out, was presented and refused
C28_Witness ==
    /\ Verified
    /\ PresentedIat = JNum(now + 1)
    /\ issuedAt = now + 1
    /\ args.time = JUndef
    /\ Refused

(***************************************************************************)
(* Further properties of the menu builder, checked under MenuSpec          *)
(***************************************************************************)
\* the item of descriptor d is in the children list of the node keyed by
\* d's parent
UnderItsParent(d) ==
    \E n \in TopNodes :
        /\ GetProp(n, S_key) = GetProp(d, S_parent)
        /\ \E c \in ItemsOf(ChildrenOf(n)) : BuiltFrom(c, d)

\* C29 (descriptor order does not matter): in whatever order the sheet
\* lists its descriptors, every allowed (and, in the app, app-visible)
\* descriptor that declares a parent P is in the children list of the node
\* keyed P of the result, also when it is listed before P's own descriptor.
C29_ChildrenKeptInAnyOrder ==
    menu.called =>
        \A i \in 1..Len(SheetOperations) :
            (Eligible(SheetOperations[i]) /\ Truthy(GetProp(SheetOperations[i], S_parent)))
                => UnderItsParent(SheetOperations[i])

\* the steps of a complete exchange, in order: a code was received, the
\* token request went to the provider, an ID token was extracted, the auth
\* backend was called, the system token was returned
StepOrder == <<"code", "request", "idtoken", "backend", "token">>

\* s is the first Len(s) elements of t
IsPrefixOf(s, t) == Len(s) <= Len(t) /\ SubSeq(t, 1, Len(s)) = s

\* the steps taken are the first steps of the order, and a failure is the
\* last thing that happened
InStepOrder(steps) ==
    \/ IsPrefixOf(steps, StepOrder)
    \/ /\ steps # <<>>
       /\ steps[Len(steps)] = "failed"
       /\ Len(steps) - 1 < Len(StepOrder)
       /\ IsPrefixOf(SubSeq(steps, 1, Len(steps) - 1), StepOrder)

Took(p, step) == \E i \in 1..Len(runs[p].steps) : runs[p].steps[i] = step

\* C30 (step order of the exchange): in every run the token request is
\* made only after a non-empty code was received, the auth backend is
\* called only after an ID token was taken from a successful token
\* response, and a system token is returned only after that call
\* succeeded; a failure at any step ends the run and no later step is
\* performed.
C30_StepOrder ==
    \A p \in 1..MaxRuns :
        /\ InStepOrder(runs[p].steps)
        /\ (runs[p].pc = "tokens" \/ runs[p].response # JUndef) => Took(p, "request")
        /\ Took(p, "request") => Present(runs[p].code)
        /\ HasSent(p) <=> Took(p, "backend")
        /\ Took(p, "backend") =>
              /\ ~runs[p].response.rejected
              /\ runs[p].response.status = 200
              /\ Truthy(ProvidedIdToken(p))
        /\ runs[p].outcome # JUndef => Took(p, "backend")
        /\ runs[p].status = 200 <=> Took(p, "token")
        /\ Took(p, "token") =>
              /\ ~Truthy(runs[p].outcome.error)
              /\ runs[p].data = GetProp(runs[p].outcome.result, S_pach_token)
        /\ Took(p, "failed") => runs[p].pc = "done" /\ runs[p].status \in {400, 500}

\* C30 case: one run went through all five steps and returned the system
\* token; the other, whose token response carried no ID token, ended with
\* 400 before the auth backend was called
C30_Witness ==
    /\ runs[1].steps = StepOrder
    /\ runs[1].status = 200
    /\ Truthy(runs[1].data)
    /\ runs[2].steps = <<"code", "request", "failed">>
    /\ runs[2].status = 400
    /\ ~runs[2].response.rejected
    /\ ~HasSent(2)

(***************************************************************************)
(* Further properties of the client object, checked under ClientSpec       *)
(***************************************************************************)
\* the request for tokens was not sent, or the provider did not answer it
\* with status 200
TokenRequestFailed ==
    \/ ~Truthy(call.before.redirectUrl)
    \/ call.response.rejected
    \/ call.response.status # 200

\* the five token fields of an object
TokenFields(o) == <<o.accessToken, o.idToken, o.refreshToken, o.tokenType, o.expiresIn>>

\* C31 (requestTokens changes the object only on success): when the
\* redirect URL is unset or the provider call fails, requestTokens raises
\* and the stored access, ID and refresh tokens, token type and expires_in
\* are what they were; when it returns, all five are the values of the
\* response, the token type being 'Bearer' when the response names none.
C31_TokensStoredOnlyOnSuccess ==
    call.method = "requestTokens" =>
        /\ TokenRequestFailed => call.thrown
        /\ call.thrown => TokenFields(heap[1]) = TokenFields(call.before)
        /\ ~call.thrown =>
              /\ heap[1].accessToken = GetProp(call.response.data, S_access_token)
              /\ heap[1].idToken = GetProp(call.response.data, S_id_token)
              /\ heap[1].refreshToken = GetProp(call.response.data, S_refresh_token)
              /\ heap[1].expiresIn = GetProp(call.response.data, S_expires_in)
              /\ heap[1].tokenType =
                    IF HasMember(call.response.data, S_token_type)
                    THEN GetProp(call.response.data, S_token_type)
                    ELSE JStr(S_BearerType)

\* C31 case: an object that holds the tokens of an earlier answer got a
\* 201 answer to a new token request; the call raised and the tokens are
\* the earlier ones
C31_Witness ==
    /\ call.method = "requestTokens"
    /\ call.response = Resolved(201, FirstTokens)
    /\ call.before.accessToken = JStr(<<97, 50>>)
    /\ call.thrown
    /\ heap[1].accessToken = JStr(<<97, 50>>)

(***************************************************************************)
(* Profile handler (controllers/account.controller.js): exports.getProfile *)
(* behind AuthMiddleware.tokenCheck, one step per awaited backend call     *)
(***************************************************************************)
S_tenant   == <<116, 101, 110, 97, 110, 116>>
S_node     == <<110, 111, 100, 101>>
S_metadata == <<109, 101, 116, 97, 100, 97, 116, 97>>
S_nps      == <<110, 112, 115>>

\* a request with the headers x-session-token, authorization and
\* authn-token and the query parameter token
ProfileRequest(x, a, q, n) ==
    [xSessionToken |-> x, authorization |-> a, queryToken |-> q, authnToken |-> n]

\* line 86: req.headers['authorization'] || req.headers['authn-token']
ForwardedToken(req) == OrElse(req.authorization, req.authnToken)

\* Curl.api(apiName, token): the constructor of CurlRequest adds the
\* credential headers only for a truthy token
Forwarded(apiName, token) ==
    [api |-> apiName, credential |-> IF Truthy(token) THEN token ELSE JUndef]

\* a variant of line 163 that also skips a line that begins with a blank
BeginsBlank(line) == Len(line) = 0 \/ line[1] \in {9, 10, 11, 12, 13, 32}

\* line 163: line.trim() is the empty string
IsBlankLine(line) == \A i \in 1..Len(line) : line[i] \in {9, 10, 11, 12, 13, 32}

\* lines 162-178, the body of lines.forEach: a blank line is skipped before
\* parsing, a parse error and a TypeError are caught and logged
ResolveLineInline(line, operations) ==
    IF IsBlankLine(line) THEN operations
    ELSE ResolveLine(JSONParse(line), operations)

RECURSIVE ResolveLinesInline(_, _, _)
ResolveLinesInline(lines, i, operations) ==
    IF i > Len(lines) THEN operations
    ELSE ResolveLinesInline(lines, i + 1, ResolveLineInline(lines[i], operations))

\* [...new Set(operations)] keeping the last occurrence of every value
RECURSIVE UniqueKeepsLast(_, _, _)
UniqueKeepsLast(a, i, acc) ==
    IF i > Len(a) THEN acc
    ELSE IF IsPrimitive(a[i]) /\ \E j \in (i + 1)..Len(a) : a[j] = a[i]
    THEN UniqueKeepsLast(a, i + 1, acc)
    ELSE UniqueKeepsLast(a, i + 1, Append(acc, a[i]))

\* a variant of line 181 that keeps the last occurrence
uniqueOperationsLast(operations) == UniqueKeepsLast(operations, 1, <<>>)

\* line 181: [...new Set(operations)]
uniqueOperations(operations) == Unique(operations, 1, <<>>)

\* lines 159-181: the operations of the role listing; a truthy roleResult
\* without a split method raises a TypeError
resolveInline(roleResult) ==
    IF ~Truthy(roleResult) THEN Returned(<<>>)
    ELSE IF roleResult.t # "str" THEN Thrown
    ELSE Returned(uniqueOperations(ResolveLinesInline(Split(roleResult.s, 10), 1, <<>>)))

\* a getProfile call: where it stands, the credential it passes on, the
\* backend requests it has sent, and how it ended
ProfileRun(req, user) ==
    [pc |-> "start", req |-> req, user |-> user, token |-> ForwardedToken(req),
     sent |-> <<>>, tenant |-> JNull, operations |-> <<>>, status |-> 0,
     failed |-> FALSE, menu |-> JUndef]

\* the handler sends a request to the backend and waits for the answer
Awaits(run, apiName, pc) ==
    [run EXCEPT !.pc = pc, !.sent = Append(@, Forwarded(apiName, run.token))]

\* res.status(status).json(...)
Ends(run, status) == [run EXCEPT !.pc = "done", !.status = status]

\* next(error) in the catch of lines 245-253
Fails(run) == [run EXCEPT !.pc = "done", !.failed = TRUE]

\* lines 83-142, up to the first awaited call
getProfileStart(req, user) ==
    IF ~Truthy(user) THEN Ends(ProfileRun(req, user), 401)
    ELSE IF Truthy(GetProp(user, S_tenant))
    THEN Awaits(ProfileRun(req, user), "rdb.getNode", "tenant")
    ELSE Awaits(ProfileRun(req, user), "rdb.listUserRole", "roles")

\* lines 115-131: tenantResult?.node?.metadata || null
getProfileTenant(run, reply) ==
    IF Truthy(reply.error) THEN Ends(run, 500)
    ELSE Awaits([run EXCEPT !.tenant =
                    OrElse(GetProp(GetProp(reply.res, S_node), S_metadata), JNull)],
                "rdb.listUserRole", "roles")

\* lines 141-196: the listing answered
getProfileRoles(run, reply) ==
    IF Truthy(reply.error) THEN Ends(run, 401)
    ELSE LET resolved == resolveInline(reply.res)
         IN  IF resolved.thrown THEN Fails(run)
             ELSE Awaits([run EXCEPT !.operations = resolved.v],
                         "rdb.loadOperationSheet", "sheets")

\* lines 212-220: menu[sheet.key] = tmp for every sheet with a menu
RECURSIVE ForEachSheet(_, _, _, _)
ForEachSheet(sheets, i, m, run) ==
    IF i > Len(sheets) THEN m
    ELSE LET tmp == toMenu(sheets[i], OrElse(GetProp(run.user, S_app), JFalse),
                           run.operations)
         IN  ForEachSheet(sheets, i + 1,
                          IF Len(tmp.m) > 0
                          THEN SetMember(m, ToStr(GetProp(sheets[i], S_key)), tmp)
                          ELSE m,
                          run)

\* lines 195-243: the operation sheet answered
getProfileSheets(run, reply) ==
    IF Truthy(reply.error) THEN Ends(run, 401)
    ELSE IF ~Truthy(reply.res) \/ ~Truthy(GetProp(reply.res, S_operations))
    THEN [Ends(run, 200) EXCEPT !.menu = JObj(<<>>)]
    ELSE IF GetProp(reply.res, S_operations).t # "arr" THEN Fails(run)
    ELSE IF \E i \in 1..Len(GetProp(reply.res, S_operations).a) :
               PropThrows(GetProp(reply.res, S_operations).a[i])
    THEN Fails(run)
    ELSE [Ends(run, 200) EXCEPT
            !.menu = JObj(ForEachSheet(GetProp(reply.res, S_operations).a, 1, <<>>, run))]

\* what Curl.api('rdb.loadOperationSheet', token, 'nps').request() resolves
\* to: an error, no body, a sheet list with one sheet, a value that is no
\* list
SheetReplies ==
    {[res |-> JNull, error |-> JStr(<<101>>)],
     [res |-> JNull, error |-> JNull],
     [res |-> JObj(<<[k |-> S_operations,
                      v |-> JArr(<<JObj(<<[k |-> S_key, v |-> JStr(S_nps)],
                                          [k |-> S_operations,
                                           v |-> JArr(<<Descriptor(JStr(S_read), JNum(1),
                                                                   JUndef, JUndef)>>)]>>)>>)]>>),
      error |-> JNull],
     [res |-> JObj(<<[k |-> S_operations, v |-> JNum(1)]>>), error |-> JNull]}

\* what Curl.api('rdb.getNode', token).request(...) resolves to
TenantReplies ==
    {[res |-> JNull, error |-> JStr(<<101>>)],
     [res |-> JObj(<<>>), error |-> JNull]}

\* a request reaches GET /profile: tokenCheck runs, and on next() the
\* handler runs up to its first awaited call
ProfileStart(requests) ==
    /\ runs = <<>>
    /\ \E req \in requests :
          LET gate == tokenCheck(req)
          IN  runs' = IF gate.next
                      THEN <<getProfileStart(req, gate.user)>>
                      ELSE <<[ProfileRun(req, JUndef) EXCEPT !.pc = "refused",
                                                            !.status = 401]>>
    /\ UNCHANGED <<now, heap, call>>
    /\ UNCHANGED svars
    /\ UNCHANGED cvars
    /\ UNCHANGED pvars

\* the backend answers the request the handler is waiting for; the role
\* listing is the one the backend holds for the caller
BackendReplies ==
    /\ Len(runs) = 1
    /\ \/ /\ runs[1].pc = "tenant"
          /\ \E reply \in TenantReplies : runs' = <<getProfileTenant(runs[1], reply)>>
       \/ /\ runs[1].pc = "roles"
          /\ runs' = <<getProfileRoles(runs[1], listing)>>
       \/ /\ runs[1].pc = "sheets"
          /\ \E reply \in SheetReplies : runs' = <<getProfileSheets(runs[1], reply)>>
    /\ UNCHANGED <<now, heap, call>>
    /\ UNCHANGED svars
    /\ UNCHANGED cvars
    /\ UNCHANGED pvars

\* req.user of subject u
ListedUser == AuthenticatedUser(JStr(S_u))

\* the caller reaches a route behind requirePermissions(required) and the
\* backend answers its listing
AuthorizeListed ==
    /\ authz = NoAuthz
    /\ \E required \in {<<JStr(S_read)>>, <<JStr(S_write), JStr(S_delete)>>} :
          LET user == ListedUser
              r == requirePermissions(required, user, listing)
          IN  authz' = [required |-> required, user |-> user, reply |-> listing,
                        listed |-> r.listed, userPermissions |-> r.userPermissions,
                        status |-> r.status, next |-> r.next]
    /\ UNCHANGED <<now, menu, listing>>
    /\ UNCHANGED svars
    /\ UNCHANGED cvars
    /\ UNCHANGED ovars

(***************************************************************************)
(* The two resolvers on one listing: the backend holds a role listing for  *)
(* subject u, who calls GET /profile and a route behind requirePermissions *)
(***************************************************************************)
\* lines of a listing: records with operations arrays, with a string and
\* with a number for operations, JSON that is no object, an empty line, a
\* line that is not JSON, a line of blanks, and a record between blanks
ResolverLines ==
    {Record(JArr(<<JStr(S_read), JStr(S_write)>>)),
     Record(JArr(<<JStr(S_delete), JStr(S_read)>>)),
     Record(JStr(<<114, 119>>)),
     Record(JNum(7)),
     Stringify(JNull),
     <<>>,
     <<123>>,
     <<32>>,
     <<32>> \o Record(JArr(<<JStr(S_write)>>)) \o <<13>>}

ResolverTexts ==
    UNION {{JoinLines(lines, 1) : lines \in [1..n -> ResolverLines]} : n \in 0..MaxLines}

ResolverReplies ==
    {[res |-> JStr(t), error |-> JNull] : t \in ResolverTexts}
    \cup {[res |-> JNull, error |-> JStr(<<101>>)],
          [res |-> JObj(<<[k |-> S_result, v |-> JObj(<<>>)]>>), error |-> JNull]}

ResolverInit ==
    /\ now = StartTime
    /\ client = 1
    /\ connected = TRUE
    /\ store = Put(<<>>, SessionKey(JStr(S_u)),
                   [value |-> SessionToken, expireAt |-> StartTime + SessionTTL])
    /\ pool = {SessionToken}
    /\ replaced = <<>>
    /\ resp = NoResp
    /\ CodecIdle
    /\ authz = NoAuthz
    /\ menu = NoMenu
    /\ listing \in ResolverReplies
    /\ OidcIdle

ResolverNext ==
    \/ ProfileStart({ProfileRequest(JStr(SessionToken), JUndef, JUndef, JUndef)})
    \/ BackendReplies
    \/ AuthorizeListed

ResolverSpec == ResolverInit /\ [][ResolverNext]_vars

(***************************************************************************)
(* Properties of the resolvers, checked under ResolverSpec                 *)
(***************************************************************************)
\* the profile handler resolved the listing
ProfileResolved == Len(runs) = 1 /\ runs[1].pc \in {"sheets", "done"} /\ ~runs[1].failed
                      /\ Len(runs[1].sent) = 2

\* what the loop body of the resolver takes from every line of a text
RECURSIVE LineItems(_, _)
LineItems(lines, i) ==
    IF i > Len(lines) THEN <<>>
    ELSE <<ResolveLine(JSONParse(lines[i]), <<>>)>> \o LineItems(lines, i + 1)

\* the place of the first occurrence of v in the items of the lines: the
\* line, then the position in the line
FirstLine(items, v) ==
    CHOOSE i \in 1..Len(items) :
        /\ Includes(items[i], v)
        /\ \A j \in 1..(i - 1) : ~Includes(items[j], v)

FirstPlace(line, v) ==
    CHOOSE k \in 1..Len(line) : line[k] = v /\ \A j \in 1..(k - 1) : line[j] # v

ComesFirst(items, v, w) ==
    \/ FirstLine(items, v) < FirstLine(items, w)
    \/ /\ FirstLine(items, v) = FirstLine(items, w)
       /\ FirstPlace(items[FirstLine(items, v)], v) < FirstPlace(items[FirstLine(items, v)], w)

\* a list without duplicates whose elements are in the order of their
\* first occurrence in the lines
FirstSeenOrder(ops, items) ==
    \A i, j \in 1..Len(ops) :
        i < j => (ops[i] # ops[j] /\ ComesFirst(items, ops[i], ops[j]))

\* both lists are in first-seen order for the lines of the text
BothFirstSeen(items) ==
    /\ authz.listed => FirstSeenOrder(authz.userPermissions, items)
    /\ ProfileResolved => FirstSeenOrder(runs[1].operations, items)

\* C32 (no duplicates, first-seen order): in the list each resolver
\* returns for a listing text, every operation identifier occurs at most
\* once, and the identifiers are in the order of their first occurrence
\* across the lines of the text.
C32_FirstSeenOrder ==
    (listing.res.t = "str" /\ (authz.listed \/ ProfileResolved)) =>
        BothFirstSeen(LineItems(Split(listing.res.s, 10), 1))

\* C32 case: read and write on the first line, delete and read again on
\* the second; both resolvers give read, write, delete
C32_Witness ==
    /\ listing.res = JStr(JoinLines(<<Record(JArr(<<JStr(S_read), JStr(S_write)>>)),
                                      Record(JArr(<<JStr(S_delete), JStr(S_read)>>))>>, 1))
    /\ authz.listed
    /\ ProfileResolved
    /\ authz.userPermissions = <<JStr(S_read), JStr(S_write), JStr(S_delete)>>
    /\ runs[1].operations = <<JStr(S_read), JStr(S_write), JStr(S_delete)>>

\* C37 (the resolvers agree): for every listing text, the list computed by
\* getUserPermissions and the list the profile handler computes inline
\* hold the same identifiers in the same order.
C37_ResolversAgree ==
    (authz.listed /\ ProfileResolved /\ listing.res.t = "str") =>
        authz.userPermissions = runs[1].operations

\* C37 case: a listing with a line of blanks and a record between blanks;
\* both resolvers give the operation of the record
C37_Witness ==
    /\ listing.res = JStr(JoinLines(<<<<32>>,
                                      <<32>> \o Record(JArr(<<JStr(S_write)>>)) \o <<13>>>>, 1))
    /\ authz.listed
    /\ ProfileResolved
    /\ authz.userPermissions = <<JStr(S_write)>>
    /\ runs[1].operations = <<JStr(S_write)>>

(***************************************************************************)
(* GET /profile on its own: requests carrying the credential in different  *)
(* places go through tokenCheck and getProfile                             *)
(***************************************************************************)
\* the session token in the session header, in the Authorization header
\* (with the Bearer prefix, bare, or another value), in the query and in
\* the authn-token header, in every combination
ProfileRequests ==
    {ProfileRequest(x, a, q, n) :
        x \in {JStr(SessionToken), JUndef},
        a \in {JStr(S_Bearer \o SessionToken), JStr(SessionToken),
               JStr(S_Bearer \o <<120>>), JUndef},
        q \in {JStr(SessionToken), JUndef},
        n \in {JStr(SessionToken), JUndef}}

\* the listing of the caller: two operations, an error
ProfileListings ==
    {[res |-> JStr(Record(JArr(<<JStr(S_read), JStr(S_write)>>))), error |-> JNull],
     [res |-> JNull, error |-> JStr(<<101>>)]}

ProfileInit ==
    /\ now = StartTime
    /\ client = 1
    /\ connected = TRUE
    /\ store = Put(<<>>, SessionKey(JStr(S_u)),
                   [value |-> SessionToken, expireAt |-> StartTime + SessionTTL])
    /\ pool = {SessionToken}
    /\ replaced = <<>>
    /\ resp = NoResp
    /\ CodecIdle
    /\ authz = NoAuthz
    /\ menu = NoMenu
    /\ listing \in ProfileListings
    /\ OidcIdle

ProfileNext ==
    \/ ProfileStart(ProfileRequests)
    \/ BackendReplies

ProfileSpec == ProfileInit /\ [][ProfileNext]_vars

(***************************************************************************)
(* Properties of the profile handler, checked under ProfileSpec            *)
(***************************************************************************)
\* the request passed tokenCheck and the handler ran
PassedGate == Len(runs) = 1 /\ runs[1].pc # "refused"

\* C36 (the authenticated credential is the one used downstream): for every
\* request that passed tokenCheck, the credential getProfile forwards with
\* each backend request is the credential tokenCheck validated, whichever
\* header or parameter carried it.
C36_ForwardsValidatedCredential ==
    PassedGate =>
        \A i \in 1..Len(runs[1].sent) :
            runs[1].sent[i].credential = ExtractToken(runs[1].req)

(***************************************************************************)
(* Outbound calls (utils/jwt.js CurlRequest.request, libs/openIDClient.js) *)
(* followed from the request an invocation sends to what it hands back     *)
(***************************************************************************)
\* some names of Curl.apiConfig, and a name it does not hold
ApiNames == {"rdb.listUserRole", "rdb.getNode", "auth.authenticate", "rdb.missing"}

\* lines 404-407: Curl.apiConfig[this.apiName] is there
SendsApiRequest(apiName) == apiName # "rdb.missing"

\* [null, errorMsg]
ApiError == [res |-> JNull, error |-> JStr(<<101>>)]

\* lines 461-468: the body, parsed when parseJson is set and it is JSON text
ResponseData(parseJson, data) ==
    IF parseJson /\ data.t = "str" /\ JSONParse(data.s).ok THEN JSONParse(data.s).v
    ELSE data

\* CurlRequest.request(data, parseJson) for the answer to axios(axiosConfig):
\* axios rejects for a network error, a timeout and a status of 500 or more
\* (validateStatus, lines 429-431); JSON.stringify(undefined).length raises
request(apiName, parseJson, response) ==
    IF ~SendsApiRequest(apiName) THEN ApiError
    ELSE IF response.rejected THEN ApiError
    ELSE IF response.status >= 400 THEN ApiError
    ELSE IF ResponseData(parseJson, response.data).t = "undef" THEN ApiError
    ELSE [res |-> ResponseData(parseJson, response.data), error |-> JNull]

\* getUserInfo lines 218-220: whether the user-info request is sent
SendsUserInfoRequest(o) == Truthy(o.accessToken)

\* getUserInfo() for the answer to axios.get
getUserInfo(o, response) ==
    IF ~SendsUserInfoRequest(o) THEN Raised(o)
    ELSE IF response.rejected THEN Raised(o)
    ELSE IF response.status # 200 THEN Raised(o)
    ELSE Done(o, response.data)

\* the outbound operations: a remote API call, and the four requests of the
\* OIDC client
Operations ==
    {[method |-> "request", api |-> a, parseJson |-> b, token |-> JUndef] :
        a \in ApiNames, b \in BOOLEAN}
    \cup {[method |-> m, api |-> "oidc", parseJson |-> FALSE, token |-> JUndef] :
             m \in {"requestTokens", "getUserInfo", "refreshAccessToken", "revokeToken"}}
    \cup {[method |-> "revokeToken", api |-> "oidc", parseJson |-> FALSE,
           token |-> JStr(<<116>>)]}

\* whether the operation, invoked on object o, reaches its axios call
Sends(op, o) ==
    CASE op.method = "request" -> SendsApiRequest(op.api)
      [] op.method = "requestTokens" -> SendsTokenRequest(o)
      [] op.method = "getUserInfo" -> SendsUserInfoRequest(o)
      [] op.method = "refreshAccessToken" -> SendsRefreshRequest(o)
      [] op.method = "revokeToken" -> Truthy(OrElse(op.token, o.accessToken))

\* validateStatus: status < 500 for CurlRequest (lines 429-431), and the
\* default of axios, 200 to 299, for the OIDC client
ValidStatus(op, status) ==
    IF op.method = "request" THEN status < 500 ELSE status >= 200 /\ status < 300

\* what the awaited axios call settles to for an answer of the upstream:
\* it rejects when there is no answer and when the status is not valid
Axios(op, answer) ==
    IF answer.rejected \/ ~ValidStatus(op, answer.status) THEN Rejected ELSE answer

\* what the operation does once its axios call has settled to response
Outcome(op, o, response) ==
    CASE op.method = "request" -> Done(o, request(op.api, op.parseJson, response))
      [] op.method = "requestTokens" -> requestTokens(o, response)
      [] op.method = "getUserInfo" -> getUserInfo(o, response)
      [] op.method = "refreshAccessToken" -> refreshAccessToken(o, response)
      [] op.method = "revokeToken" -> revokeToken(o, op.token, response)

\* an invocation: the requests it has issued, the answer to the last one,
\* and what it handed to its caller
Invocation(op, o) ==
    [op |-> op, pc |-> "sent", before |-> o, requests |-> 1, response |-> JUndef,
     thrown |-> FALSE, v |-> JUndef]

\* the invocation is over
Finished(run, response, outcome) ==
    [run EXCEPT !.pc = "done", !.response = response, !.thrown = outcome.thrown,
                !.v = outcome.v]

\* the upstream did not answer, or answered with an error status
UpstreamFailed(response) == response.rejected \/ response.status >= 400

\* a variant that sends the request once more when the first one failed
SettlesAfterRetry(run, response, outcome) ==
    IF UpstreamFailed(response) /\ run.requests < 2
    THEN [run EXCEPT !.requests = @ + 1]
    ELSE Finished(run, response, outcome)

\* after the awaited axios call settles: the rest of the try, or the catch,
\* neither of which calls axios
Settles(run, response, outcome) == Finished(run, response, outcome)

\* answers of an upstream: none, error statuses, a 2xx status other than
\* 200, an empty body, JSON text, tokens, no body
UpstreamAnswers ==
    {Rejected, Resolved(404, JStr(<<>>)), Resolved(500, JStr(<<>>)),
     Resolved(201, FirstTokens),
     Resolved(204, JStr(<<>>)), Resolved(200, JStr(Record(JArr(<<JStr(S_read)>>)))),
     Resolved(200, FirstTokens), Resolved(200, JUndef)}

\* a client as the constructor leaves it, or as exports.exchange sets it up
OutboundInit ==
    /\ now = StartTime
    /\ ServerIdle
    /\ CodecIdle
    /\ PermissionsIdle
    /\ heap \in {<<OpenIDClient>>, <<setRedirectURL(OpenIDClient, JStr(S_redirect))>>}
    /\ runs = <<>>
    /\ call = NoCall

\* a caller invokes an outbound operation, which runs up to its axios call
\* or ends before it
Invoke ==
    /\ runs = <<>>
    /\ \E op \in Operations :
          runs' = IF Sends(op, heap[1])
                  THEN <<Invocation(op, heap[1])>>
                  ELSE <<[Finished(Invocation(op, heap[1]), JUndef,
                                   Outcome(op, heap[1], Rejected))
                             EXCEPT !.requests = 0]>>
    /\ UNCHANGED <<now, heap, call>>
    /\ UNCHANGED svars
    /\ UNCHANGED cvars
    /\ UNCHANGED pvars

\* the upstream answers, or the request times out
UpstreamSettles ==
    /\ Len(runs) = 1
    /\ runs[1].pc = "sent"
    /\ \E answer \in UpstreamAnswers :
          LET outcome == Outcome(runs[1].op, heap[1], Axios(runs[1].op, answer))
          IN  /\ runs' = <<Settles(runs[1], answer, outcome)>>
              /\ heap' = <<outcome.o>>
    /\ UNCHANGED <<now, call>>
    /\ UNCHANGED svars
    /\ UNCHANGED cvars
    /\ UNCHANGED pvars

\* the caller goes on
InvocationOver ==
    /\ Len(runs) = 1
    /\ runs[1].pc = "done"
    /\ runs' = <<>>
    /\ UNCHANGED <<now, heap, call>>
    /\ UNCHANGED svars
    /\ UNCHANGED cvars
    /\ UNCHANGED pvars

OutboundNext == Invoke \/ UpstreamSettles \/ InvocationOver

OutboundSpec == OutboundInit /\ [][OutboundNext]_vars

(***************************************************************************)
(* Properties of the outbound calls, checked under OutboundSpec            *)
(***************************************************************************)
\* the caller was given the failure: an exception, [null, error], or false
FailureSurfaced(run) ==
    \/ run.thrown
    \/ run.op.method = "request" /\ run.v.res = JNull /\ Truthy(run.v.error)
    \/ run.op.method = "revokeToken" /\ run.v = JFalse

\* C33 (no internal retries): every invocation of an outbound operation
\* issues at most one request to the upstream, and when that request fails
\* the invocation is over and the failure is returned or raised to the
\* caller.
C33_NoRetries ==
    \A i \in 1..Len(runs) :
        /\ runs[i].requests <= 1
        /\ (runs[i].response # JUndef /\ UpstreamFailed(runs[i].response)) =>
              /\ runs[i].pc = "done"
              /\ FailureSurfaced(runs[i])

\* C33 case: a token request that got no answer; the invocation ended with
\* an exception after one request
C33_Witness ==
    /\ Len(runs) = 1
    /\ runs[1].op.method = "requestTokens"
    /\ runs[1].response = Rejected
    /\ runs[1].requests = 1
    /\ runs[1].pc = "done"
    /\ runs[1].thrown

(***************************************************************************)
(* Further properties of the permission check, checked under AuthorizeSpec *)
(***************************************************************************)
\* the listing gave an error, or a body that has no lines
ListingUnreadable == Truthy(authz.reply.error) \/ authz.reply.res.t # "str"

\* C35 (authorization fails closed): when the required list is not empty
\* and the permission listing answers with an error or with a body that
\* cannot be read as text lines, requirePermissions does not call next: the
\* caller's operations are taken to be none and the request is refused.
C35_FailsClosed ==
    (Authorized /\ authz.required # <<>> /\ ListingUnreadable) =>
        /\ ~authz.next
        /\ authz.userPermissions = <<>>
        /\ authz.status = 403

\* C35 case: the listing answered with an error to a request that needs
\* read; the request was refused
C35_Witness ==
    /\ Authorized
    /\ authz.required = <<JStr(S_read)>>
    /\ Truthy(authz.reply.error)
    /\ authz.listed
    /\ ~authz.next
    /\ authz.status = 403

(***************************************************************************)
(* A route behind tokenCheck or optionalAuth and then requirePermissions:  *)
(* one request, followed through both gates                                *)
(***************************************************************************)
\* what a gate did with the request: the response it sent (status 0: none),
\* whether it called next(), and req.user after it
GateRecord(route, req, gate) ==
    [Gated(route, req, gate, Sent(0, JUndef, store))
        EXCEPT !.status = gate.status, !.data = [t |-> "request", req |-> req]]

\* requests with the session token, a string that is no token, or nothing
\* in the session header, and the same in the Authorization header
ChainRequests ==
    {Request(x, a, JUndef) :
        x \in {JStr(SessionToken), JStr(<<120>>), JUndef},
        a \in {JStr(S_Bearer \o SessionToken), JStr(S_Bearer \o <<120>>), JUndef}}

\* answers of the listing: operations, an error, a body that is no text
ChainReplies ==
    {[res |-> JStr(Record(JArr(<<JStr(S_read)>>))), error |-> JNull],
     [res |-> JNull, error |-> JStr(<<101>>)],
     [res |-> JObj(<<[k |-> S_result, v |-> JObj(<<>>)]>>), error |-> JNull]}

\* the request reaches the first gate of its route
FirstGate ==
    /\ resp = NoResp
    /\ \E req \in ChainRequests :
          \/ resp' = GateRecord("tokenCheck", req, tokenCheck(req))
          \/ resp' = GateRecord("optionalAuth", req, optionalAuth(req))
    /\ UNCHANGED <<now, client, connected, store, pool, replaced>>
    /\ UNCHANGED cvars
    /\ UNCHANGED pvars
    /\ UNCHANGED ovars

\* the first gate called next(): the request reaches
\* requirePermissions(required) with the req.user the first gate left
SecondGate ==
    /\ resp.next
    /\ authz = NoAuthz
    /\ \E required \in RequiredLists, reply \in ChainReplies :
          LET r == requirePermissions(required, resp.user, reply)
          IN  authz' = [required |-> required, user |-> resp.user, reply |-> reply,
                        listed |-> r.listed, userPermissions |-> r.userPermissions,
                        status |-> r.status, next |-> r.next]
    /\ UNCHANGED <<now, menu, listing>>
    /\ UNCHANGED svars
    /\ UNCHANGED cvars
    /\ UNCHANGED ovars

ChainNext ==
    \/ FirstGate
    \/ SecondGate
    \/ ClientDown
    \/ ClientReady

ChainSpec == GateInit /\ [][ChainNext]_vars

(***************************************************************************)
(* Properties of the gates, checked under ChainSpec                        *)
(***************************************************************************)
\* the gate called next() and sent nothing, or sent an error response and
\* did not call next()
OneOutcome(next, status) ==
    \/ next /\ status = 0
    \/ ~next /\ status \in {401, 403, 500}

\* C34 (exactly one outcome per gate call): every call of tokenCheck and
\* of requirePermissions either calls next() and sends no response, or
\* sends one error response and does not call next(); req.user is attached
\* only when tokenCheck calls next().
C34_ExactlyOneOutcome ==
    /\ resp.route = "tokenCheck" =>
          /\ OneOutcome(resp.next, resp.status)
          /\ resp.user # JUndef <=> resp.next
    /\ authz # NoAuthz => OneOutcome(authz.next, authz.status)

\* C34 case: a request passed tokenCheck with its identity attached and
\* was refused by requirePermissions with 403
C34_Witness ==
    /\ resp.route = "tokenCheck"
    /\ resp.next
    /\ resp.status = 0
    /\ Truthy(resp.user)
    /\ authz # NoAuthz
    /\ ~authz.next
    /\ authz.status = 403

(***************************************************************************)
(* The Redis connection (utils/redis.js): init, the events of the clients  *)
(* it created, getClient and close                                         *)
(***************************************************************************)
\* most clients created by Redis.init()
MaxClients == 3

\* redis.createClient({ url }): a client that has not emitted 'ready'
NewClient == [status |-> "connecting"]

\* the listeners init() registers on the client it creates (lines 59-72):
\* each assigns the one static flag
FlagAfter(event) == event = "ready"

\* the state of a client after it emitted the event; after 'error' the
\* client reconnects, after 'end' it emits nothing more
StatusAfter(event) ==
    CASE event = "ready" -> "ready"
      [] event = "error" -> "failed"
      [] event = "end" -> "ended"

ConnectionInit ==
    /\ now = StartTime
    /\ ServerIdle
    /\ CodecIdle
    /\ PermissionsIdle
    /\ OidcIdle

\* Redis.init(): this.client = redis.createClient(...), listeners
\* registered, connect() started; the earlier client, if any, is left as
\* it is
InitCall ==
    /\ Len(heap) < MaxClients
    /\ heap' = Append(heap, NewClient)
    /\ client' = Len(heap) + 1
    /\ call' = [NoCall EXCEPT !.method = "init"]
    /\ UNCHANGED <<now, connected, store, pool, replaced, resp, runs>>
    /\ UNCHANGED cvars
    /\ UNCHANGED pvars

\* a client created by init() emits 'ready', 'error' or 'end'
ClientEmits ==
    /\ \E i \in 1..Len(heap), event \in {"ready", "error", "end"} :
          /\ heap[i].status # "ended"
          /\ heap' = [heap EXCEPT ![i].status = StatusAfter(event)]
          /\ connected' = FlagAfter(event)
          /\ call' = [NoCall EXCEPT !.method = event, !.arg = JNum(i)]
    /\ UNCHANGED <<now, client, store, pool, replaced, resp, runs>>
    /\ UNCHANGED cvars
    /\ UNCHANGED pvars

\* Redis.getClient(), through which every store operation goes
GetClientCall ==
    /\ client # 0
    /\ call' = [NoCall EXCEPT !.method = "getClient", !.arg = JNum(client),
                              !.thrown = ~ClientUsable]
    /\ UNCHANGED <<now, heap, runs>>
    /\ UNCHANGED svars
    /\ UNCHANGED cvars
    /\ UNCHANGED pvars

\* Redis.close(): quit() on the current client when the flag is set
CloseCall ==
    /\ call' = [NoCall EXCEPT !.method = "close"]
    /\ IF ClientUsable
       THEN /\ heap' = [heap EXCEPT ![client].status = "ended"]
            /\ connected' = FALSE
       ELSE UNCHANGED <<heap, connected>>
    /\ UNCHANGED <<now, client, store, pool, replaced, resp, runs>>
    /\ UNCHANGED cvars
    /\ UNCHANGED pvars

ConnectionNext == InitCall \/ ClientEmits \/ GetClientCall \/ CloseCall

ConnectionSpec == ConnectionInit /\ [][ConnectionNext]_vars

(***************************************************************************)
(* Properties of the connection, checked under ConnectionSpec              *)
(***************************************************************************)
\* the client the store holds has emitted 'ready' and since then neither
\* 'error' nor 'end', and was not closed
CurrentClientReady == client # 0 /\ heap[client].status = "ready"

\* C38 (the flag tracks the current client): after any sequence of init
\* calls, client events and close calls, Redis.connected is true only if
\* the client the store holds is ready, and getClient admits a store
\* operation only in that state.
C38_FlagTracksCurrentClient ==
    /\ connected => CurrentClientReady
    /\ (call.method = "getClient" /\ ~call.thrown) => CurrentClientReady

(***************************************************************************)
(* The menu builder on sheets with parents that have parents               *)
(***************************************************************************)
\* x and y under p, p under q, q and t at the top level; all in the app
NestedDescriptors ==
    {Descriptor(JStr(S_x), JNum(1), JStr(S_p), JBool(TRUE)),
     Descriptor(JStr(S_y), JNum(2), JStr(S_p), JBool(TRUE)),
     Descriptor(JStr(S_p), JNum(1), JStr(S_q), JBool(TRUE)),
     Descriptor(JStr(S_q), JNum(1), JUndef, JBool(TRUE)),
     Descriptor(JStr(S_t), JNum(2), JUndef, JUndef)}

\* sheets listing up to MaxDescriptors of them, each at most once
NestedSheets ==
    {JObj(<<[k |-> S_operations, v |-> JArr(ops)]>>) :
        ops \in UNION {{o \in [1..n -> NestedDescriptors] :
                           \A i, j \in 1..n : i # j => o[i] # o[j]} :
                       n \in 0..MaxDescriptors}}

\* getProfile runs toMenu on a sheet of the operation sheet for a caller
\* who may use every operation, or all but q
BuildNestedMenu ==
    /\ menu = NoMenu
    /\ \E sheet \in NestedSheets, isApp \in {JBool(TRUE), JBool(FALSE)},
          userOperations \in {<<JStr(S_x), JStr(S_y), JStr(S_p), JStr(S_q), JStr(S_t)>>,
                              <<JStr(S_x), JStr(S_y), JStr(S_p), JStr(S_t)>>} :
          menu' = [sheet |-> sheet, isApp |-> isApp, userOperations |-> userOperations,
                   called |-> TRUE, menu |-> toMenu(sheet, isApp, userOperations)]
    /\ UNCHANGED <<now, authz, listing>>
    /\ UNCHANGED svars
    /\ UNCHANGED cvars
    /\ UNCHANGED ovars

NestedMenuNext == BuildNestedMenu

NestedMenuSpec == MenuInit /\ [][NestedMenuNext]_vars

(***************************************************************************)
(* Properties of the menu builder, checked under NestedMenuSpec            *)
(***************************************************************************)
\* the places of the nodes of the returned tree: <<i, 0>> for the i-th
\* top-level node, <<i, j>> for its j-th child
NodePlaces ==
    {<<i, 0>> : i \in 1..Len(menu.menu.m)}
    \cup UNION {{<<i, j>> : j \in 1..Len(GetProp(menu.menu.m[i].v, S_children).a)} :
                  i \in 1..Len(menu.menu.m)}

\* the key of the node at a place
KeyAt(place) ==
    IF place[2] = 0 THEN GetProp(menu.menu.m[place[1]].v, S_key)
    ELSE GetProp(GetProp(menu.menu.m[place[1]].v, S_children).a[place[2]], S_key)

\* the descriptors of the sheet have pairwise distinct keys
DistinctKeys ==
    \A i, j \in 1..Len(SheetOperations) :
        i # j => GetProp(SheetOperations[i], S_key) # GetProp(SheetOperations[j], S_key)

\* C39 (menu keys are unique): in the tree toMenu returns for a sheet whose
\* descriptors have pairwise distinct keys, no key labels two nodes, top
\* level and children lists taken together, also when the parent of a
\* descriptor is a descriptor that has a parent.
C39_MenuKeysUnique ==
    (menu.called /\ DistinctKeys) =>
        \A a, b \in NodePlaces : a # b => KeyAt(a) # KeyAt(b)

=============================================================================
